---- MODULE Spec2Model ----
(***************************************************************************)
(* A model of the YouTube live-playlist synchroniser:                      *)
(*   - OAuthClient        (src/src/auth/oauth-client.ts)                   *)
(*   - APIClient          (src/src/utils/logger.ts, second half)           *)
(*   - arrayDiff          (src/src/utils/diff.ts)                          *)
(*   - SyncService        (src/src/services/sync.service.ts)               *)
(*   - YouTubeService     (src/unnamed/part_002)                           *)
(* Six specifications share the module: Spec (the orchestrator run),       *)
(*   - loadConfig, handler (src/src/config/schema.ts, src/api/cron.ts)     *)
(* SpecAuth (the token manager under concurrent callers), SpecRetry (one   *)
(* executeWithRetry call), SpecDiff (arrayDiff on arbitrary inputs),       *)
(* SpecHandler (one invocation of the cron handler) and SpecConcurrent     *)
(* (overlapping invocations of the handler on the same playlists).         *)
(***************************************************************************)
EXTENDS Integers, Sequences, FiniteSets, TLC

VARIABLES
  \* ---- OAuthClient ----
  accessToken,      \* 0 models null, otherwise the token received
  tokenExpiresAt,   \* epoch ms
  refreshPromise,   \* 0 models null, otherwise the id of the stored promise
  now,              \* Date.now()
  promises,         \* promise id -> the promise of one performRefresh call:
                    \* its state and value, and what the token endpoint
                    \* answered (status, expires_in) at which time
  inflight,         \* ids of token-endpoint calls awaiting their response
  cpc,              \* caller -> position in getValidAccessToken
  cprom,            \* caller -> promise the caller awaits (0: none)
  cres,             \* caller -> what getValidAccessToken gave the caller
  calls,            \* number of getValidAccessToken invocations so far
  \* ---- APIClient.executeWithRetry ----
  rpc,              \* "call" | "sleeping" | "returned" | "thrown"
  attempt,          \* loop variable of executeWithRetry
  lastError,        \* error object of the latest failed attempt
  rdelay,           \* delay of the sleep in progress
  rlog,             \* attempts and sleeps, in order
  rout,             \* value returned or error thrown by executeWithRetry
  getterCalls,      \* calls the client made to the token getter that
                    \* YouTubeService hands to its constructor
  entries,          \* times the server applied the request of the operation
                    \* (for the POST of addVideoToPlaylist: new playlist items)
  \* ---- arrayDiff ----
  dpc,              \* "input" | "done"
  dCurrent,
  dTarget,
  dKey,             \* the key extractor: the name of the field it reads
  dOut,
  \* ---- configuration and the YouTube side ----
  config,           \* AppConfig.playlists
  live,             \* channel -> the videos it is broadcasting, as /search lists them
  playlist,         \* playlistId -> its playlist items, in playlist order
  nextId,           \* next playlistItemId the server hands out
  \* ---- SyncService ----
  run,              \* number of syncAllPlaylists calls started
  spc,              \* "idle" | "discover" | "fetch" | "add" | "remove": the call
                    \* awaited; "returned" | "thrown": syncPlaylist settled;
                    \* "crashed": syncAllPlaylists threw
  ti,               \* index of playlistConfig in config.playlists
  ci,               \* index of channelConfig in discoverLiveStreams
  bi,               \* index in the loop of batchAddVideos / batchRemoveVideos
  allLiveStreams,   \* discoverLiveStreams
  liveStreams,      \* syncPlaylist
  videos,           \* getPlaylistVideos
  pageToken,        \* getPlaylistVideos; 0 models undefined
  diff,             \* syncPlaylist
  result,           \* syncPlaylist
  results,          \* syncAllPlaylists
  log,              \* outbound calls, diff and pauses of the task, in order
  last,             \* task -> how the task's latest execution went
  \* ---- the cron handler (api/cron.ts) ----
  hpc,              \* "start"; the call awaited: "sync" | "metadata" | "kvset";
                    \* "done": the handler returned; "unhandled": it threw
  processEnv,       \* process.env: the three OAuth variables
  configFile,       \* playlists.json as readFileSync and JSON.parse find it
  loads,            \* number of loadConfig calls
  hresults,         \* results of syncAllPlaylists
  outbound,         \* the calls the handler issued that reach the network
  responses,        \* what was sent through res, in order
  \* ---- concurrent invocations of the handler ----
  inv,              \* invocation -> the state of its syncAllPlaylists call
  firstNewId        \* the first playlistItemId handed out to an invocation

authVars == <<accessToken, tokenExpiresAt, refreshPromise, now, promises,
              inflight, cpc, cprom, cres, calls>>
retryVars == <<rpc, attempt, lastError, rdelay, rlog, rout, getterCalls,
               entries>>
diffVars == <<dpc, dCurrent, dTarget, dKey, dOut>>
envVars == <<config, live, playlist, nextId>>
syncVars == <<run, spc, ti, ci, bi, allLiveStreams, liveStreams, videos,
              pageToken, diff, result, results, log, last>>
handlerVars == <<hpc, processEnv, configFile, loads, hresults, outbound,
                 responses>>
concVars == <<inv, firstNewId>>
vars == <<authVars, retryVars, diffVars, envVars, syncVars, handlerVars,
          concVars>>

----------------------------------------------------------------------------
(* Bounds *)
NumCallers == 3
MaxCalls == 3
MaxTicks == 1
MaxDiffLen == 2
NumVideos == 2
MaxRuns == 2
PageSize == 1
MaxPlaylists == 2
NumInvocations == 2

----------------------------------------------------------------------------
(* OAuthClient *)

Callers == 1..NumCallers

\* 5 * 60 * 1000
TOKEN_REFRESH_BUFFER == 5 * 60 * 1000

\* the granularity at which the model lets Date.now() advance
TickMs == 5 * 60 * 1000

\* expires_in values (seconds) the token endpoint may answer with
ExpiresInChoices == {300, 600, 3600}

\* status 0: the request failed without a response
RefreshFailures == {0, 400, 500}

NoResult == [kind |-> "none", val |-> 0, at |-> 0, exp |-> 0, via |-> 0]

MsgReauth == "OAuth refresh token is invalid or expired. Please re-run: npm run setup-oauth"
MsgGeneric == "OAuth token refresh failed. Please check your credentials and try again."

AuthInit ==
  /\ accessToken = 0
  /\ tokenExpiresAt = 0
  /\ refreshPromise = 0
  /\ now = 0
  /\ promises = <<>>
  /\ inflight = {}
  /\ cpc = [c \in Callers |-> "idle"]
  /\ cprom = [c \in Callers |-> 0]
  /\ cres = [c \in Callers |-> NoResult]
  /\ calls = 0

isTokenExpiredInverted == now <= tokenExpiresAt - TOKEN_REFRESH_BUFFER
isTokenExpired == now >= tokenExpiresAt - TOKEN_REFRESH_BUFFER

\* what a settled promise hands to the caller that resumes on it at `now`
Outcome(p) ==
  IF promises[p].state = "fulfilled"
    THEN [kind |-> "token", val |-> promises[p].val, at |-> now,
          exp |-> tokenExpiresAt, via |-> p]
    ELSE [kind |-> "error", val |-> promises[p].val, at |-> now,
          exp |-> tokenExpiresAt, via |-> p]

\* the promise of a performRefresh call whose token request is in flight
PendingPromise == [state |-> "pending", val |-> 0, at |-> 0, status |-> 0,
                   expires_in |-> 0]

\* the promise awaited at line 50 has settled and refreshAccessToken has not
\* resumed yet. Its continuation is the first reaction registered on the
\* promise (lines 47-50 run without suspension), so it is the first job queued
\* when the promise settles: it runs before the caller of any other await
\* that the settlement releases, and before any later event of the event loop
OwnerPending ==
  \E c \in Callers : cpc[c] = "owner" /\ promises[cprom[c]].state # "pending"

\* refreshAccessToken, line 42: is there a stored promise to return?
RefreshInProgressNoCheck == FALSE
RefreshInProgress == refreshPromise # 0

\* getValidAccessToken, up to its first suspension
GetValidAccessToken(c) ==
  /\ cpc[c] = "idle"
  /\ calls < MaxCalls
  /\ ~OwnerPending
  /\ calls' = calls + 1
  /\ IF accessToken # 0 /\ ~isTokenExpired
       THEN \* cached token
            /\ cres' = [cres EXCEPT ![c] =
                 [kind |-> "token", val |-> accessToken, at |-> now,
                  exp |-> tokenExpiresAt, via |-> 0]]
            /\ cpc' = [cpc EXCEPT ![c] = "done"]
            /\ UNCHANGED <<cprom, promises, inflight, refreshPromise>>
       ELSE IF RefreshInProgress
         THEN \* refreshAccessToken returns the stored promise
              /\ cpc' = [cpc EXCEPT ![c] = "waiter"]
              /\ cprom' = [cprom EXCEPT ![c] = refreshPromise]
              /\ UNCHANGED <<cres, promises, inflight, refreshPromise>>
         ELSE \* performRefresh runs up to axios.post; its promise is stored
              LET p == Len(promises) + 1 IN
              /\ promises' = Append(promises, PendingPromise)
              /\ inflight' = inflight \cup {p}
              /\ refreshPromise' = p
              /\ cpc' = [cpc EXCEPT ![c] = "owner"]
              /\ cprom' = [cprom EXCEPT ![c] = p]
              /\ UNCHANGED cres
  /\ UNCHANGED <<accessToken, tokenExpiresAt, now>>

\* promise continuations are microtasks: the event loop runs them all before
\* it delivers a network response or a timer, so before the clock of the model
\* (5-minute steps) moves
MicrotaskPending ==
  \E c \in Callers :
    cpc[c] \in {"owner", "waiter"} /\ promises[cprom[c]].state # "pending"

\* performRefresh after axios.post resolved
RefreshSucceeds(p, expires_in) ==
  /\ p \in inflight
  /\ ~MicrotaskPending
  /\ inflight' = inflight \ {p}
  /\ accessToken' = p
  /\ tokenExpiresAt' = now + expires_in * 1000
  /\ promises' = [promises EXCEPT ![p] =
       [state |-> "fulfilled", val |-> p, at |-> now, status |-> 200,
        expires_in |-> expires_in]]
  /\ UNCHANGED <<refreshPromise, now, cpc, cprom, cres, calls>>

\* performRefresh's catch block
RefreshFailsOn401(p, status) ==
  /\ p \in inflight
  /\ ~MicrotaskPending
  /\ inflight' = inflight \ {p}
  /\ promises' = [promises EXCEPT ![p] =
       [state |-> "rejected",
        val |-> IF status = 401 THEN MsgReauth ELSE MsgGeneric,
        at |-> now, status |-> status, expires_in |-> 0]]
  /\ UNCHANGED <<accessToken, tokenExpiresAt, refreshPromise, now, cpc, cprom,
                 cres, calls>>
RefreshFailsClearsToken(p, status) ==
  /\ p \in inflight
  /\ ~MicrotaskPending
  /\ inflight' = inflight \ {p}
  /\ accessToken' = 0
  /\ tokenExpiresAt' = 0
  /\ promises' = [promises EXCEPT ![p] =
       [state |-> "rejected",
        val |-> IF status = 400 THEN MsgReauth ELSE MsgGeneric,
        at |-> now, status |-> status, expires_in |-> 0]]
  /\ UNCHANGED <<refreshPromise, now, cpc, cprom, cres, calls>>
RefreshFails(p, status) ==
  /\ p \in inflight
  /\ ~MicrotaskPending
  /\ inflight' = inflight \ {p}
  /\ promises' = [promises EXCEPT ![p] =
       [state |-> "rejected",
        val |-> IF status = 400 THEN MsgReauth ELSE MsgGeneric,
        at |-> now, status |-> status, expires_in |-> 0]]
  /\ UNCHANGED <<accessToken, tokenExpiresAt, refreshPromise, now, cpc, cprom,
                 cres, calls>>

\* refreshAccessToken resumes after `await this.refreshPromise`; finally
OwnerResumesKeepsPromise(c) ==
  /\ cpc[c] = "owner"
  /\ promises[cprom[c]].state # "pending"
  /\ cres' = [cres EXCEPT ![c] = Outcome(cprom[c])]
  /\ cpc' = [cpc EXCEPT ![c] = "done"]
  /\ cprom' = [cprom EXCEPT ![c] = 0]
  /\ UNCHANGED <<accessToken, tokenExpiresAt, refreshPromise, now, promises,
                 inflight, calls>>
OwnerResumes(c) ==
  /\ cpc[c] = "owner"
  /\ promises[cprom[c]].state # "pending"
  /\ cres' = [cres EXCEPT ![c] = Outcome(cprom[c])]
  /\ cpc' = [cpc EXCEPT ![c] = "done"]
  /\ cprom' = [cprom EXCEPT ![c] = 0]
  /\ refreshPromise' = 0
  /\ UNCHANGED <<accessToken, tokenExpiresAt, now, promises, inflight, calls>>

\* a caller that was handed the stored promise resumes on its outcome
WaiterResumes(c) ==
  /\ cpc[c] = "waiter"
  /\ promises[cprom[c]].state # "pending"
  /\ ~OwnerPending
  /\ cres' = [cres EXCEPT ![c] = Outcome(cprom[c])]
  /\ cpc' = [cpc EXCEPT ![c] = "done"]
  /\ cprom' = [cprom EXCEPT ![c] = 0]
  /\ UNCHANGED <<accessToken, tokenExpiresAt, refreshPromise, now, promises,
                 inflight, calls>>

\* the caller uses the result and may call again
CallerReturns(c) ==
  /\ cpc[c] = "done"
  /\ calls < MaxCalls
  /\ cpc' = [cpc EXCEPT ![c] = "idle"]
  /\ cres' = [cres EXCEPT ![c] = NoResult]
  /\ UNCHANGED <<accessToken, tokenExpiresAt, refreshPromise, now, promises,
                 inflight, cprom, calls>>

Tick ==
  /\ ~MicrotaskPending
  /\ now < MaxTicks * TickMs
  /\ now' = now + TickMs
  /\ UNCHANGED <<accessToken, tokenExpiresAt, refreshPromise, promises,
                 inflight, cpc, cprom, cres, calls>>

AuthNext ==
  \/ \E c \in Callers : GetValidAccessToken(c)
  \/ \E p \in inflight, e \in ExpiresInChoices : RefreshSucceeds(p, e)
  \/ \E p \in inflight, s \in RefreshFailures : RefreshFails(p, s)
  \/ \E c \in Callers : OwnerResumes(c)
  \/ \E c \in Callers : WaiterResumes(c)
  \/ \E c \in Callers : CallerReturns(c)
  \/ Tick

----------------------------------------------------------------------------
(* Properties of OAuthClient, checked under SpecAuth *)

\* callers suspended on the promise p
Awaiting(p) == {c \in Callers : cpc[c] \in {"owner", "waiter"} /\ cprom[c] = p}

\* C1 -- single-flight refresh: at most one token-endpoint call is in flight;
\* the call in flight is the one the stored promise stands for, so a caller
\* that needs a refresh meanwhile joins it instead of issuing its own call
\* (every caller still waiting on an unsettled refresh waits on that call),
\* and every caller that went through a refresh got the outcome of the call
\* it waited on: its token, or its failure.
C1_SingleFlight ==
  /\ Cardinality(inflight) <= 1
  /\ \A p \in inflight : refreshPromise = p /\ p = Len(promises)
  /\ \A c \in Callers :
       (cpc[c] \in {"owner", "waiter"} /\ promises[cprom[c]].state = "pending")
         => cprom[c] \in inflight
  /\ \A c \in Callers :
       (cpc[c] = "done" /\ cres[c].via # 0) =>
          /\ promises[cres[c].via].state # "pending"
          /\ cres[c].val = promises[cres[c].via].val
          /\ (cres[c].kind = "token") = (promises[cres[c].via].state = "fulfilled")

\* every caller went through one and the same outbound refresh call: one
\* started it, the others joined it
C1_Witness ==
  /\ Len(promises) = 1
  /\ \A c \in Callers : cpc[c] = "done" /\ cres[c].via = 1

\* C2 -- token freshness as claimed: no caller is handed a token at a time
\* now >= tokenExpiresAt - 5 minutes, on any path and for any expires_in.
C2_AlwaysFresh ==
  \A c \in Callers :
    (cpc[c] = "done" /\ cres[c].kind = "token")
      => ~(cres[c].at >= cres[c].exp - TOKEN_REFRESH_BUFFER)

\* the latest refresh that succeeded (0: none yet)
LastFulfilled ==
  IF \E p \in DOMAIN promises : promises[p].state = "fulfilled"
    THEN CHOOSE p \in DOMAIN promises :
           /\ promises[p].state = "fulfilled"
           /\ \A q \in DOMAIN promises : promises[q].state = "fulfilled" => q <= p
    ELSE 0

\* caller c invokes getValidAccessToken in this step
Invokes(c) == cpc[c] = "idle" /\ cpc'[c] # "idle"

\* C15 -- token caching: a call made while a token is stored and
\* now < tokenExpiresAt - 5 minutes returns the stored token and issues no
\* outbound call; when a refresh succeeds the stored token is the one received
\* and the stored expiry is the time of receipt + expires_in * 1000; so a call
\* made less than expires_in * 1000 - 5 minutes after the latest successful
\* refresh issues no outbound call.
C15_TokenCaching ==
  [][/\ \A c \in Callers :
          (Invokes(c) /\ accessToken # 0 /\ now < tokenExpiresAt - 300000)
            => /\ cpc'[c] = "done"
               /\ cres'[c].kind = "token"
               /\ cres'[c].val = accessToken
               /\ promises' = promises
               /\ inflight' = inflight
     /\ \A p \in DOMAIN promises :
          (promises[p].state = "pending" /\ promises'[p].state = "fulfilled")
            => /\ promises'[p].at = now
               /\ accessToken' = promises'[p].val
               /\ tokenExpiresAt' = now + promises'[p].expires_in * 1000
     /\ \A c \in Callers :
          (/\ Invokes(c)
           /\ LastFulfilled # 0
           /\ now < promises[LastFulfilled].at
                      + promises[LastFulfilled].expires_in * 1000 - 300000)
            => /\ Len(promises') = Len(promises)
               /\ cres'[c].val = promises[LastFulfilled].val
    ]_vars

\* one refresh so far, and a call made 5 minutes after it was answered from
\* the cache
C15_Witness ==
  /\ Len(promises) = 1
  /\ promises[1].state = "fulfilled"
  /\ \E c \in Callers :
       /\ cpc[c] = "done"
       /\ cres[c] = [kind |-> "token", val |-> 1, at |-> promises[1].at + TickMs,
                     exp |-> tokenExpiresAt, via |-> 0]

\* C16 -- in-flight marker release: once a refresh has settled and
\* refreshAccessToken has resumed, with the token or with the failure,
\* refreshPromise is null; so a call that needs a refresh never receives a
\* promise that has already settled: when no refresh is in flight it starts a
\* new outbound call, also after a failed refresh.
C16_MarkerRelease ==
  [][/\ \A c \in Callers :
          (cpc[c] = "owner" /\ cpc'[c] = "done") => refreshPromise' = 0
     /\ (refreshPromise # 0 /\ promises[refreshPromise].state # "pending")
          => OwnerPending
     /\ \A c \in Callers :
          (Invokes(c) /\ cpc'[c] # "done")
            => /\ promises'[cprom'[c]].state = "pending"
               /\ inflight = {} =>
                    /\ cpc'[c] = "owner"
                    /\ Len(promises') = Len(promises) + 1
                    /\ cprom'[c] = Len(promises')
                    /\ inflight' = {cprom'[c]}
    ]_vars

\* a refresh failed, and the next call that needed a token started a second
\* outbound call, which succeeded
C16_Witness ==
  /\ Len(promises) = 2
  /\ promises[1].state = "rejected"
  /\ promises[2].state = "fulfilled"
  /\ \E c \in Callers : cpc[c] = "done" /\ cres[c].kind = "token" /\ cres[c].via = 2

\* C17 -- refresh failure handling: a caller whose refresh the token endpoint
\* rejected with status 400 gets the error that tells to re-run the OAuth
\* setup, a caller whose refresh failed in any other way gets the generic
\* error; a failed refresh is not retried: its request is not in flight again,
\* and there are never more outbound refresh calls than invocations of
\* getValidAccessToken.
C17_RefreshFailure ==
  /\ Len(promises) <= calls
  /\ \A p \in DOMAIN promises :
       promises[p].state # "pending" => p \notin inflight
  /\ \A c \in Callers :
       (cpc[c] = "done" /\ cres[c].via # 0) =>
          LET p == promises[cres[c].via] IN
          /\ (cres[c].kind = "error") = (p.status # 200)
          /\ (p.status = 400) =>
               cres[c].val = "OAuth refresh token is invalid or expired. Please re-run: npm run setup-oauth"
          /\ (p.status \notin {200, 400}) =>
               cres[c].val = "OAuth token refresh failed. Please check your credentials and try again."

\* one caller was told to re-authorize after a 400, another got the generic
\* error after a 500 of a refresh of its own
C17_Witness ==
  /\ Len(promises) = 2
  /\ promises[1].status = 400
  /\ promises[2].status = 500
  /\ \E c, d \in Callers :
       /\ cpc[c] = "done" /\ cres[c].via = 1 /\ cres[c].val = MsgReauth
       /\ cpc[d] = "done" /\ cres[d].via = 2 /\ cres[d].val = MsgGeneric

\* the refresh p settles in this step
Settles(p, state) ==
  promises[p].state = "pending" /\ promises'[p].state = state

\* C38 -- a step in which a refresh fails leaves accessToken and tokenExpiresAt
\* as they were; a step that changes either of them is the success of a
\* refresh, which stores the token and the expiry the response gives.
C38_FailedRefreshFrame ==
  [][/\ (\E p \in DOMAIN promises : Settles(p, "rejected"))
          => UNCHANGED <<accessToken, tokenExpiresAt>>
     /\ (accessToken' # accessToken \/ tokenExpiresAt' # tokenExpiresAt)
          => \E p \in DOMAIN promises :
               /\ Settles(p, "fulfilled")
               /\ accessToken' = promises'[p].val
               /\ tokenExpiresAt' = now + promises'[p].expires_in * 1000]_vars

\* a refresh failed while the token of an earlier refresh was stored, and the
\* stored token and expiry are still those of the earlier refresh
C38_Witness ==
  /\ Len(promises) = 2
  /\ promises[1].state = "fulfilled"
  /\ promises[2].state = "rejected"
  /\ accessToken = promises[1].val
  /\ tokenExpiresAt = promises[1].at + promises[1].expires_in * 1000

----------------------------------------------------------------------------
(* APIClient.executeWithRetry *)

maxRetries == 3
baseDelay == 1000

\* 2^n
RECURSIVE Pow2(_)
Pow2(n) == IF n = 0 THEN 1 ELSE 2 * Pow2(n - 1)

\* what one invocation of `operation` can do: resolve, reject with an Axios
\* error (status 0: no response was received), or reject with another error.
\* A request answered with success was applied by the server; one that got no
\* response (timeout, connection lost) may have been applied or not
Statuses == {0, 304, 400, 401, 403, 404, 429, 500, 503}
OpOutcomes ==
  {[kind |-> "ok", status |-> 200, applied |-> TRUE]}
    \cup {[kind |-> "axios", status |-> s, applied |-> FALSE] : s \in Statuses}
    \cup {[kind |-> "axios", status |-> 0, applied |-> TRUE]}
    \cup {[kind |-> "other", status |-> 0, applied |-> FALSE]}

NoError == [n |-> 0, kind |-> "none", status |-> 0]

RetryIdle ==
  /\ rpc = "off"
  /\ attempt = 0
  /\ lastError = NoError
  /\ rdelay = 0
  /\ rlog = <<>>
  /\ rout = NoError
  /\ getterCalls = 0
  /\ entries = 0

RetryInit ==
  /\ rpc = "call"
  /\ attempt = 0
  /\ lastError = NoError
  /\ rdelay = 0
  /\ rlog = <<>>
  /\ rout = NoError
  /\ getterCalls = 0
  /\ entries = 0

calculateBackoffConstant(a) == baseDelay
calculateBackoffOffByOne(a) == baseDelay * Pow2(a + 1)
calculateBackoff(a) == baseDelay * Pow2(a)

\* error.response is absent when status = 0
shouldRetryNo429(error) ==
  IF error.status = 0 THEN TRUE ELSE error.status >= 500
shouldRetry(error) ==
  IF error.status = 0 THEN TRUE
  ELSE error.status = 429 \/ error.status >= 500

\* attempt < this.maxRetries - 1
HasRetriesLeftAlways(a) == TRUE
HasRetriesLeft(a) == a < maxRetries - 1

\* error instanceof Error && 'isAxiosError' in error
isAxiosErrorAlways(error) == TRUE
isAxiosError(error) == error.kind = "axios"

\* one iteration of the loop of executeWithRetry: `await operation()` settles
\* with outcome o; the error object of the attempt is identified by the
\* attempt that threw it. The operation is a bare request of the axios
\* instance of lines 49-52: the constructor has two parameters, the getter
\* passed as a third argument is dropped, and no request reads a token
Attempt(o) ==
  /\ rpc = "call"
  /\ attempt < maxRetries
  /\ UNCHANGED getterCalls
  /\ entries' = entries + (IF o.applied THEN 1 ELSE 0)
  /\ LET error == [n |-> attempt, kind |-> o.kind, status |-> o.status]
         ev == [type |-> "attempt", n |-> attempt, kind |-> o.kind,
                status |-> o.status, ms |-> 0]
     IN
     IF o.kind = "ok"
       THEN /\ rpc' = "returned"
            /\ rout' = [n |-> attempt, kind |-> "ok", status |-> o.status]
            /\ rlog' = Append(rlog, ev)
            /\ UNCHANGED <<attempt, lastError, rdelay>>
       ELSE /\ lastError' = error
            /\ IF isAxiosError(error) /\ shouldRetry(error)
                  /\ HasRetriesLeft(attempt)
                 THEN /\ rdelay' = calculateBackoff(attempt)
                      /\ rpc' = "sleeping"
                      /\ rlog' = rlog \o <<ev, [type |-> "sleep", n |-> attempt,
                                   kind |-> "", status |-> 0,
                                   ms |-> calculateBackoff(attempt)]>>
                      /\ UNCHANGED <<attempt, rout>>
                 ELSE /\ rpc' = "thrown"
                      /\ rout' = error
                      /\ rlog' = Append(rlog, ev)
                      /\ UNCHANGED <<attempt, rdelay>>

\* the timer of sleep(delay) fires; `continue` increments attempt
SleepDone ==
  /\ rpc = "sleeping"
  /\ attempt' = attempt + 1
  /\ rdelay' = 0
  /\ IF attempt + 1 < maxRetries
       THEN rpc' = "call" /\ UNCHANGED rout
       ELSE rpc' = "thrown" /\ rout' = lastError
  /\ UNCHANGED <<lastError, rlog, getterCalls, entries>>

RetryNext ==
  \/ \E o \in OpOutcomes : Attempt(o)
  \/ SleepDone

----------------------------------------------------------------------------
(* Properties of executeWithRetry, checked under SpecRetry *)

AttemptEv(n, st) ==
  [type |-> "attempt", n |-> n, kind |-> "axios", status |-> st, ms |-> 0]
SleepEv(n, ms) ==
  [type |-> "sleep", n |-> n, kind |-> "", status |-> 0, ms |-> ms]

IsPrefix(s, t) == Len(s) <= Len(t) /\ \A i \in 1..Len(s) : s[i] = t[i]

\* every attempt made so far failed with HTTP 503
Always503 ==
  /\ rlog # <<>>
  /\ \A i \in DOMAIN rlog :
       rlog[i].type = "attempt" => rlog[i].kind = "axios" /\ rlog[i].status = 503

Run503 ==
  <<AttemptEv(0, 503), SleepEv(0, 1000), AttemptEv(1, 503), SleepEv(1, 2000),
    AttemptEv(2, 503)>>

Retryable(ev) ==
  ev.kind = "axios" /\ (ev.status = 0 \/ ev.status = 429 \/ ev.status >= 500)

\* C4 -- retry predicate: after a failed attempt that is not the last allowed
\* one, a further step (backoff, then the next attempt) follows if and only if
\* the failure had no response, or status 429, or a status >= 500; any other
\* failure is thrown at once and is the last event of the call.
C4_RetryPredicate ==
  \A i \in DOMAIN rlog :
    (rlog[i].type = "attempt" /\ rlog[i].kind # "ok" /\ rlog[i].n < maxRetries - 1)
      => /\ (i < Len(rlog)) <=> Retryable(rlog[i])
         /\ Retryable(rlog[i]) =>
              /\ rlog[i + 1].type = "sleep"
              /\ IF i + 1 = Len(rlog)
                   THEN rpc \in {"sleeping", "call"}
                   ELSE /\ rlog[i + 2].type = "attempt"
                        /\ rlog[i + 2].n = rlog[i].n + 1
         /\ ~Retryable(rlog[i]) =>
              /\ rpc = "thrown"
              /\ rout = [n |-> rlog[i].n, kind |-> rlog[i].kind,
                         status |-> rlog[i].status]

\* a 429 was retried and the retry's 404 was not
C4_Witness ==
  /\ Len(rlog) = 3
  /\ rlog[1] = AttemptEv(0, 429)
  /\ rlog[3] = AttemptEv(1, 404)
  /\ rpc = "thrown"

\* the attempts made so far
Attempts == SelectSeq(rlog, LAMBDA e : e.type = "attempt")

\* the delays slept so far
Sleeps == SelectSeq(rlog, LAMBDA e : e.type = "sleep")

\* C18 -- credential per attempt, as claimed: every attempt of the executor,
\* the first and each retry, is preceded by its own call to the token getter
\* (getValidAccessToken of the credential manager).
C18_TokenPerAttempt == getterCalls = Len(Attempts)

C37_OtherErrorsNotRetried ==
  \A i \in DOMAIN rlog :
    (rlog[i].type = "attempt" /\ rlog[i].kind = "other")
      => /\ i = Len(rlog)
         /\ rpc = "thrown"
         /\ rout = [n |-> rlog[i].n, kind |-> "other", status |-> 0]
         /\ lastError = rout
         /\ rlog[i].n = 0 => Len(rlog) = 1 /\ Sleeps = <<>>

\* the first attempt threw an error that is not an Axios error
C37_Witness ==
  /\ rpc = "thrown"
  /\ Len(rlog) = 1
  /\ rlog[1].kind = "other"
  /\ rout.kind = "other"

\* C35 -- at most one new entry under retry, as claimed: whatever the
\* attempts of one add call meet, a response lost after the server applied the
\* request included, the server applies the request at most once.
C35_OneEntryUnderRetry == entries <= 1

----------------------------------------------------------------------------
(* arrayDiff *)

\* the two fields of a PlaylistVideo take their values here
DiffHandles == 1..2
DiffVideoIds == 1..3
DiffItems == [playlistItemId : DiffHandles, videoId : DiffVideoIds]
KeyExtractors == {"videoId", "playlistItemId"}

SeqsUpTo(S, n) == UNION {[1..m -> S] : m \in 0..n}

\* new Set(xs.map(keyExtractor))
KeySet(xs, k) == {xs[i][k] : i \in DOMAIN xs}

\* xs without the elements whose key an earlier element, or `seen`, has
RECURSIVE FirstPerKey(_, _, _)
FirstPerKey(xs, k, seen) ==
  IF xs = <<>> THEN <<>>
  ELSE IF Head(xs)[k] \in seen THEN FirstPerKey(Tail(xs), k, seen)
  ELSE <<Head(xs)>> \o FirstPerKey(Tail(xs), k, seen \cup {Head(xs)[k]})

arrayDiffDedupAdd(current, target, k) ==
  [toAdd |-> FirstPerKey(target, k, KeySet(current, k)),
   toRemove |-> SelectSeq(current, LAMBDA item : item[k] \notin KeySet(target, k))]
arrayDiffRemoveAll(current, target, k) ==
  [toAdd |-> SelectSeq(target, LAMBDA item : item[k] \notin KeySet(current, k)),
   toRemove |-> current]
arrayDiffAddAll(current, target, k) ==
  [toAdd |-> target,
   toRemove |-> SelectSeq(current, LAMBDA item : item[k] \notin KeySet(target, k))]
arrayDiffRemoveByOwnKeys(current, target, k) ==
  [toAdd |-> SelectSeq(target, LAMBDA item : item[k] \notin KeySet(current, k)),
   toRemove |-> SelectSeq(current, LAMBDA item : item[k] \notin KeySet(current, k))]
arrayDiff(current, target, k) ==
  [toAdd |-> SelectSeq(target, LAMBDA item : item[k] \notin KeySet(current, k)),
   toRemove |-> SelectSeq(current, LAMBDA item : item[k] \notin KeySet(target, k))]

DiffIdle ==
  /\ dpc = "off"
  /\ dCurrent = <<>>
  /\ dTarget = <<>>
  /\ dKey = "videoId"
  /\ dOut = [toAdd |-> <<>>, toRemove |-> <<>>]

DiffInit ==
  /\ dpc = "input"
  /\ dCurrent \in SeqsUpTo(DiffItems, MaxDiffLen)
  /\ dTarget \in SeqsUpTo(DiffItems, MaxDiffLen)
  /\ dKey \in KeyExtractors
  /\ dOut = [toAdd |-> <<>>, toRemove |-> <<>>]

CallArrayDiff ==
  /\ dpc = "input"
  /\ dOut' = arrayDiff(dCurrent, dTarget, dKey)
  /\ dpc' = "done"
  /\ UNCHANGED <<dCurrent, dTarget, dKey>>

DiffNext == CallArrayDiff

----------------------------------------------------------------------------
(* Properties of arrayDiff, checked under SpecDiff *)

\* the subsequence of xs, in order, of the elements whose key is not in keys
RECURSIVE Without(_, _, _)
Without(xs, keys, k) ==
  IF xs = <<>> THEN <<>>
  ELSE LET rest == Without(Tail(xs), keys, k) IN
       IF Head(xs)[k] \in keys THEN rest ELSE <<Head(xs)>> \o rest

OtherField(k) == IF k = "videoId" THEN "playlistItemId" ELSE "videoId"

\* xs with the field that is not the key overwritten by v
Overwrite(xs, k, v) == [i \in DOMAIN xs |-> [xs[i] EXCEPT ![OtherField(k)] = v]]

\* C5 -- diff correctness: toAdd is the subsequence of desired, in order, of
\* exactly the elements whose key is no key of current; toRemove is the
\* subsequence of current, in order, of exactly the elements whose key is no
\* key of desired; so keys(toAdd) and keys(current) are disjoint, as are
\* keys(toRemove) and keys(desired); and the other field of the elements has
\* no influence on which elements are selected.
C5_DiffCorrect ==
  dpc = "done" =>
    /\ dOut.toAdd = Without(dTarget, KeySet(dCurrent, dKey), dKey)
    /\ dOut.toRemove = Without(dCurrent, KeySet(dTarget, dKey), dKey)
    /\ KeySet(dOut.toAdd, dKey) \cap KeySet(dCurrent, dKey) = {}
    /\ KeySet(dOut.toRemove, dKey) \cap KeySet(dTarget, dKey) = {}
    /\ \A v \in DiffHandles :
         LET o == arrayDiff(Overwrite(dCurrent, dKey, v),
                            Overwrite(dTarget, dKey, v), dKey)
         IN /\ o.toAdd = Overwrite(dOut.toAdd, dKey, v)
            /\ o.toRemove = Overwrite(dOut.toRemove, dKey, v)

\* a diff with work on both sides and an element kept on both sides
C5_Witness ==
  /\ dpc = "done"
  /\ dOut.toAdd # <<>>
  /\ dOut.toRemove # <<>>
  /\ Len(dOut.toAdd) < Len(dTarget)
  /\ Len(dOut.toRemove) < Len(dCurrent)

\* number of elements of xs with the key v
CountKey(xs, k, v) == Cardinality({i \in DOMAIN xs : xs[i][k] = v})

\* C20 -- duplicate keys in desired collapse, as claimed: toAdd contains at
\* most one element per key, and toRemove is the same as for desired with the
\* duplicates removed.
C20_DuplicatesCollapse ==
  dpc = "done" =>
    /\ \A i, j \in DOMAIN dOut.toAdd :
         i # j => dOut.toAdd[i][dKey] # dOut.toAdd[j][dKey]
    /\ dOut.toRemove =
         Without(dCurrent, KeySet(FirstPerKey(dTarget, dKey, {}), dKey), dKey)

\* C20, amended -- toRemove is the same as for desired with the duplicates
\* removed; toAdd holds every element of desired whose key is absent from
\* current, an element for each occurrence of a duplicated key, so it has at
\* most one element per key exactly when the absent keys are not duplicated in
\* desired.
C20_DuplicateKeys ==
  dpc = "done" =>
    /\ dOut.toRemove =
         Without(dCurrent, KeySet(FirstPerKey(dTarget, dKey, {}), dKey), dKey)
    /\ \A v \in KeySet(dCurrent, dKey) : CountKey(dOut.toAdd, dKey, v) = 0
    /\ \A v \in KeySet(dTarget, dKey) \ KeySet(dCurrent, dKey) :
         CountKey(dOut.toAdd, dKey, v) = CountKey(dTarget, dKey, v)

\* desired holds the same absent key twice: both elements are in toAdd, and
\* the member of current is removed as it would be for one of them
C20_Witness ==
  /\ dpc = "done"
  /\ Len(dTarget) = 2
  /\ dTarget[1][dKey] = dTarget[2][dKey]
  /\ dTarget[1] # dTarget[2]
  /\ dOut.toAdd = dTarget
  /\ dCurrent # <<>>
  /\ dOut.toRemove = dCurrent

----------------------------------------------------------------------------
(* Configuration and the YouTube side *)

Videos == 1..NumVideos
Channels == {"UCa", "UCb"}
PlaylistIds == {"PL1", "PL2"}

\* sequences without repetition
Distinct(S, n) ==
  {q \in SeqsUpTo(S, n) : \A i, j \in DOMAIN q : i # j => q[i] # q[j]}

\* two playlist tasks; the second may or may not target the playlist of the
\* first (the schema does not forbid it)
Configs ==
  {<<[name |-> "A", playlistId |-> "PL1", channels |-> <<"UCa", "UCb">>],
     [name |-> "B", playlistId |-> pl, channels |-> <<"UCb">>]>> :
       pl \in PlaylistIds}

\* playlist items of a fresh playlist holding the videos vs, ids from base + 1
Items(vs, base) ==
  [i \in DOMAIN vs |-> [playlistItemId |-> base + i, videoId |-> vs[i]]]

\* what each channel broadcasts, and what the playlists hold before the first
\* run (UCa lists its videos in ascending order)
EnvInit ==
  /\ config \in Configs
  /\ live \in {[UCa |-> a, UCb |-> b] :
                a \in {q \in Distinct(Videos, 2) :
                         \A i, j \in DOMAIN q : i < j => q[i] < q[j]},
                b \in Distinct(Videos, 1)}
  /\ \E v1 \in SeqsUpTo(Videos, 2), v2 \in SeqsUpTo({1}, 1) :
       /\ playlist = [PL1 |-> Items(v1, 0), PL2 |-> Items(v2, Len(v1))]
       /\ nextId = Len(v1) + Len(v2) + 1

\* GET /search?channelId=ch&eventType=live, mapped as getChannelLiveStreams does
SearchLive(ch) ==
  [i \in DOMAIN live[ch] |-> [videoId |-> live[ch][i], channelId |-> ch]]

Min(a, b) == IF a < b THEN a ELSE b

\* GET /playlistItems?playlistId=pl&pageToken=token: the page that starts after
\* `token` items, and the token of the next page (0: none)
PlaylistItemsPage(pl, token) ==
  [items |-> SubSeq(playlist[pl], token + 1,
                    Min(token + PageSize, Len(playlist[pl]))),
   nextPageToken |-> IF token + PageSize < Len(playlist[pl])
                       THEN token + PageSize ELSE 0]

\* POST /playlistItems: the server appends a new item
Inserted(pls, pl, id, v) ==
  [pls EXCEPT ![pl] = Append(@, [playlistItemId |-> id, videoId |-> v])]

\* DELETE /playlistItems?id=...: the item with that id disappears
Deleted(pls, id) ==
  [q \in DOMAIN pls |-> SelectSeq(pls[q], LAMBDA it : it.playlistItemId # id)]

\* how a call of YouTubeService ends for its caller once the API client is
\* through with it: "ok" resolves and the server has applied the request;
\* "fail" throws and nothing was applied
CallOutcomes == {"ok", "fail"}

----------------------------------------------------------------------------
(* SyncService and the batch operations of YouTubeService *)

EmptyDiff == [toAdd |-> <<>>, toRemove |-> <<>>]

NewResult(name) ==
  [playlistName |-> name, liveStreamsFound |-> 0, videosAdded |-> 0,
   videosRemoved |-> 0, errors |-> <<>>, addedVideos |-> <<>>,
   removedVideos |-> <<>>]

\* the result pushed by the catch block of syncAllPlaylists
FailedResultNoError(name) ==
  [playlistName |-> name, liveStreamsFound |-> 0, videosAdded |-> 0,
   videosRemoved |-> 0, errors |-> <<>>,
   addedVideos |-> <<>>, removedVideos |-> <<>>]
FailedResult(name) ==
  [playlistName |-> name, liveStreamsFound |-> 0, videosAdded |-> 0,
   videosRemoved |-> 0, errors |-> <<"Failed to sync: request failed">>,
   addedVideos |-> <<>>, removedVideos |-> <<>>]

\* nothing known, or: the task did not run to its end with every add and remove
\* call successful
NoSummary ==
  [clean |-> FALSE, partial |-> FALSE, desired |-> <<>>, added |-> {},
   removed |-> {}]

Tasks == 1..2

SyncIdle ==
  /\ run = 0
  /\ spc = "idle"
  /\ ti = 0
  /\ ci = 0
  /\ bi = 0
  /\ allLiveStreams = <<>>
  /\ liveStreams = <<>>
  /\ videos = <<>>
  /\ pageToken = 0
  /\ diff = EmptyDiff
  /\ result = NewResult("")
  /\ results = <<>>
  /\ log = <<>>
  /\ last = [t \in Tasks |-> NoSummary]

EnvIdle ==
  /\ config = <<>>
  /\ live = [UCa |-> <<>>, UCb |-> <<>>]
  /\ playlist = [PL1 |-> <<>>, PL2 |-> <<>>]
  /\ nextId = 1

\* the state of the service as one record, to compute successor states
Here ==
  [run |-> run, spc |-> spc, ti |-> ti, ci |-> ci, bi |-> bi,
   allLiveStreams |-> allLiveStreams, liveStreams |-> liveStreams,
   videos |-> videos, pageToken |-> pageToken, diff |-> diff,
   result |-> result, results |-> results, log |-> log, last |-> last,
   playlist |-> playlist, nextId |-> nextId]

Becomes(n) ==
  /\ run' = n.run
  /\ spc' = n.spc
  /\ ti' = n.ti
  /\ ci' = n.ci
  /\ bi' = n.bi
  /\ allLiveStreams' = n.allLiveStreams
  /\ liveStreams' = n.liveStreams
  /\ videos' = n.videos
  /\ pageToken' = n.pageToken
  /\ diff' = n.diff
  /\ result' = n.result
  /\ results' = n.results
  /\ log' = n.log
  /\ last' = n.last
  /\ playlist' = n.playlist
  /\ nextId' = n.nextId
  /\ UNCHANGED <<config, live>>

Ev(t, type, arg, ok) == [task |-> t, type |-> type, arg |-> arg, ok |-> ok]

Logged(s, type, arg, ok) ==
  [s EXCEPT !.log = Append(@, Ev(s.ti, type, arg, ok))]

\* syncAllPlaylists: the for loop reaches playlistConfig number i, or ends
LoopAt(s, i) ==
  LET clean == [s EXCEPT !.ci = 0, !.bi = 0, !.log = <<>>,
                         !.allLiveStreams = <<>>,
                         !.liveStreams = <<>>, !.videos = <<>>,
                         !.pageToken = 0, !.diff = EmptyDiff] IN
  IF i <= Len(config)
    THEN [clean EXCEPT !.spc = "discover", !.ti = i, !.ci = 1,
                       !.result = NewResult(config[i].name)]
    ELSE [clean EXCEPT !.spc = "idle", !.ti = 0, !.result = NewResult("")]

\* syncPlaylist returns its result (line 97)
TaskReturns(s) == [s EXCEPT !.spc = "returned"]

\* an error leaves syncPlaylist
TaskThrows(s) == [s EXCEPT !.spc = "thrown"]

\* deduplicateStreams
RECURSIVE deduplicateFrom(_, _, _, _)
deduplicateFrom(streams, i, seen, unique) ==
  IF i > Len(streams) THEN unique
  ELSE IF streams[i].videoId \notin seen
    THEN deduplicateFrom(streams, i + 1, seen \cup {streams[i].videoId},
                         Append(unique, streams[i]))
    ELSE deduplicateFrom(streams, i + 1, seen, unique)

deduplicateStreamsNone(streams) == streams
deduplicateStreams(streams) == deduplicateFrom(streams, 1, {}, <<>>)

\* liveStreams.find((stream) => stream.videoId === v.videoId)
Find(streams, v) ==
  streams[CHOOSE i \in DOMAIN streams :
            /\ streams[i].videoId = v
            /\ \A j \in 1..(i - 1) : streams[j].videoId # v]

\* syncPlaylist, lines 71-73
StreamsToAddFromStart(s) ==
  [i \in DOMAIN s.diff.toAdd |-> s.liveStreams[i]]
StreamsToAdd(s) ==
  [i \in DOMAIN s.diff.toAdd |-> Find(s.liveStreams, s.diff.toAdd[i].videoId)]

\* syncPlaylist, line 85
PlaylistItemIdsToRemove(s) ==
  [i \in DOMAIN s.diff.toRemove |-> s.diff.toRemove[i].playlistItemId]

\* syncPlaylist, lines 84-97, entered with the removals still to do
RemovePhase(s) ==
  IF Len(s.diff.toRemove) > 0
    THEN [s EXCEPT !.spc = "remove", !.bi = 1]
    ELSE TaskReturns(s)

\* syncPlaylist, lines 70-83, entered with the diff just computed
AddPhaseRemovalsFirst(s) ==
  IF Len(s.diff.toRemove) > 0
    THEN [s EXCEPT !.spc = "remove", !.bi = 1]
    ELSE IF Len(s.diff.toAdd) > 0
      THEN [s EXCEPT !.spc = "add", !.bi = 1]
      ELSE TaskReturns(s)
AddPhase(s) ==
  IF Len(s.diff.toAdd) > 0
    THEN [s EXCEPT !.spc = "add", !.bi = 1]
    ELSE RemovePhase(s)

\* syncPlaylist, lines 75-82: batchAddVideos returned
AfterAdds(s) ==
  RemovePhase([s EXCEPT
    !.result.videosAdded = Len(StreamsToAdd(s)),
    !.result.addedVideos = StreamsToAdd(s)])

\* syncPlaylist, lines 87-97: batchRemoveVideos returned
AfterRemoves(s) ==
  TaskReturns([s EXCEPT
    !.result.videosRemoved = Len(PlaylistItemIdsToRemove(s)),
    !.result.removedVideos =
       [i \in DOMAIN s.diff.toRemove |-> s.diff.toRemove[i].videoId]])

\* syncAllPlaylists is called
StartRun ==
  /\ spc = "idle"
  /\ run < MaxRuns
  /\ Becomes(LoopAt([Here EXCEPT !.run = run + 1, !.results = <<>>], 1))

\* discoverLiveStreams, lines 117-120: is a failure of one channel rethrown?
DiscoverRethrowsAlways == TRUE
DiscoverRethrows == FALSE

\* discoverLiveStreams, one iteration: getChannelLiveStreams settles with o;
\* after the last channel the streams are deduplicated and syncPlaylist goes
\* on to getPlaylistVideos
Discover(o) ==
  /\ spc = "discover"
  /\ LET channel == config[ti].channels[ci]
         s1 == Logged(Here, "discover", channel, o = "ok")
         s2 == IF o = "ok"
                 THEN [s1 EXCEPT !.allLiveStreams = @ \o SearchLive(channel)]
                 ELSE s1
         unique == deduplicateStreams(s2.allLiveStreams)
     IN
     IF o # "ok" /\ DiscoverRethrows
       THEN Becomes(TaskThrows(s1))
       ELSE IF ci < Len(config[ti].channels)
         THEN Becomes([s2 EXCEPT !.ci = ci + 1])
         ELSE Becomes([s2 EXCEPT
                !.liveStreams = unique,
                !.result.liveStreamsFound = Len(unique),
                !.spc = "fetch", !.videos = <<>>, !.pageToken = 0])

\* syncPlaylist, line 63: the key extractor handed to arrayDiff
keyExtractorPlaylistItemId == "playlistItemId"
keyExtractor == "videoId"

\* syncPlaylist, lines 58-62: the target handed to arrayDiff
Target(streams) ==
  [i \in DOMAIN streams |-> [playlistItemId |-> 0, videoId |-> streams[i].videoId]]

\* getPlaylistVideos, line 125: while (pageToken)
HasMorePagesNever(response) == FALSE
HasMorePages(response) == response.nextPageToken # 0

\* getPlaylistVideos, lines 129-132: is a failure of a page request rethrown?
FetchRethrowsNever == FALSE
FetchRethrows == TRUE

\* getPlaylistVideos, one iteration of the do-while: the page request settles
\* with o; after the last page syncPlaylist computes the diff and enters the
\* add phase
FetchPage(o) ==
  /\ spc = "fetch"
  /\ LET s1 == Logged(Here, "fetch", pageToken, o = "ok")
         response == PlaylistItemsPage(config[ti].playlistId, pageToken)
         s2 == [s1 EXCEPT !.videos = @ \o response.items,
                          !.pageToken = response.nextPageToken]
         d == arrayDiff(s2.videos, Target(liveStreams), keyExtractor)
         s3 == [s2 EXCEPT !.diff = d,
                  !.log = Append(@, Ev(ti, "diff",
                     [toAdd |-> [i \in DOMAIN d.toAdd |-> d.toAdd[i].videoId],
                      toRemove |-> [i \in DOMAIN d.toRemove |->
                                      d.toRemove[i].playlistItemId]], TRUE))]
         \* were the error swallowed: the pages fetched so far are returned
         dp == arrayDiff(s1.videos, Target(liveStreams), keyExtractor)
         sp == [s1 EXCEPT !.diff = dp,
                  !.log = Append(@, Ev(ti, "diff",
                     [toAdd |-> [i \in DOMAIN dp.toAdd |-> dp.toAdd[i].videoId],
                      toRemove |-> [i \in DOMAIN dp.toRemove |->
                                      dp.toRemove[i].playlistItemId]], TRUE))]
     IN
     IF o # "ok"
       THEN IF FetchRethrows THEN Becomes(TaskThrows(s1))
                             ELSE Becomes(AddPhase(sp))
     ELSE IF HasMorePages(response) THEN Becomes(s2)
     ELSE Becomes(AddPhase(s3))

\* batchAddVideos, lines 193-196: is a failure of one item rethrown?
AddRethrowsAlways == TRUE
AddRethrows == FALSE

\* batchAddVideos, one iteration: addVideoToPlaylist settles with o; on
\* success the 200ms pause follows
AddVideo(o) ==
  /\ spc = "add"
  /\ LET stream == StreamsToAdd(Here)[bi]
         s1 == Logged(Here, "add", stream.videoId, o = "ok")
         s2 == IF o = "ok"
                 THEN [s1 EXCEPT
                         !.playlist = Inserted(@, config[ti].playlistId,
                                               nextId, stream.videoId),
                         !.nextId = @ + 1]
                 ELSE s1
         s3 == IF o = "ok" THEN Logged(s2, "sleep", 200, TRUE) ELSE s2
     IN
     IF o # "ok" /\ AddRethrows
       THEN Becomes(TaskThrows(s3))
       ELSE IF bi < Len(diff.toAdd)
         THEN Becomes([s3 EXCEPT !.bi = bi + 1])
         ELSE Becomes(AfterAdds(s3))

\* batchRemoveVideos, lines 207-212: is a failure of one item rethrown?
RemoveRethrowsAlways == TRUE
RemoveRethrows == FALSE

\* batchRemoveVideos, one iteration: removeVideoFromPlaylist settles with o;
\* on success the 200ms pause follows
RemoveVideo(o) ==
  /\ spc = "remove"
  /\ LET playlistItemId == PlaylistItemIdsToRemove(Here)[bi]
         s1 == Logged(Here, "remove", playlistItemId, o = "ok")
         s2 == IF o = "ok"
                 THEN [s1 EXCEPT !.playlist = Deleted(@, playlistItemId)]
                 ELSE s1
         s3 == IF o = "ok" THEN Logged(s2, "sleep", 200, TRUE) ELSE s2
     IN
     IF o # "ok" /\ RemoveRethrows
       THEN Becomes(TaskThrows(s3))
       ELSE IF bi < Len(diff.toRemove)
         THEN Becomes([s3 EXCEPT !.bi = bi + 1])
         ELSE Becomes(AfterRemoves(s3))

\* the ids of the videos of the streams
VideoIds(streams) == [i \in DOMAIN streams |-> streams[i].videoId]

\* the arguments of the calls of the type that succeeded in the task
Applied(type) ==
  {log[i].arg : i \in {j \in DOMAIN log : log[j].type = type /\ log[j].ok}}

\* how the execution that returns went: with every add and remove call
\* successful, or partially applied, and then which calls it did apply
ExecutionSummary ==
  IF \A i \in DOMAIN log : log[i].type \in {"add", "remove"} => log[i].ok
    THEN [clean |-> TRUE, partial |-> FALSE,
          desired |-> VideoIds(liveStreams), added |-> {}, removed |-> {}]
    ELSE [clean |-> FALSE, partial |-> TRUE,
          desired |-> VideoIds(liveStreams), added |-> Applied("add"),
          removed |-> Applied("remove")]

\* syncAllPlaylists, line 22: results.push(result); the loop goes on
PushResultUnshift ==
  /\ spc = "returned"
  /\ Becomes(LoopAt([Here EXCEPT
        !.results = <<result>> \o @,
        !.last[ti] = ExecutionSummary], ti + 1))
PushResult ==
  /\ spc = "returned"
  /\ Becomes(LoopAt([Here EXCEPT
        !.results = Append(@, result),
        !.last[ti] = ExecutionSummary], ti + 1))

\* syncAllPlaylists, lines 23-32: the catch block; the loop goes on
CatchErrorRethrows ==
  /\ spc = "thrown"
  /\ Becomes([Here EXCEPT !.spc = "crashed"])
CatchErrorNoPush ==
  /\ spc = "thrown"
  /\ Becomes(LoopAt([Here EXCEPT !.last[ti] = NoSummary], ti + 1))
CatchError ==
  /\ spc = "thrown"
  /\ Becomes(LoopAt([Here EXCEPT
        !.results = Append(@, FailedResult(config[ti].name)),
        !.last[ti] = NoSummary], ti + 1))

SyncNext ==
  \/ StartRun
  \/ PushResult
  \/ CatchError
  \/ \E o \in CallOutcomes : Discover(o)
  \/ \E o \in CallOutcomes : FetchPage(o)
  \/ \E o \in CallOutcomes : AddVideo(o)
  \/ \E o \in CallOutcomes : RemoveVideo(o)

----------------------------------------------------------------------------
(* Properties of SyncService, checked under Spec *)

\* the events of the given types in the task's log, in order
Events(types) == SelectSeq(log, LAMBDA e : e.type \in types)

Args(evs) == [i \in DOMAIN evs |-> evs[i].arg]

\* the task in progress is the only one configured to write its playlist
NoOtherWriter ==
  \A t \in DOMAIN config :
    t # ti => config[t].playlistId # config[ti].playlistId

\* the task in progress repeats an execution that ran to its end with every
\* add and remove call successful, and discovery found the same live items
RepeatsCleanRun ==
  /\ spc \in {"add", "remove", "returned"}
  /\ last[ti].clean
  /\ last[ti].desired = VideoIds(liveStreams)

\* C6 -- idempotent reconciliation: when a task ran with every add and remove
\* call of its plan successful and runs again with the same discovered live
\* items and no other writer to its playlist, the second execution computes
\* the empty plan and issues no add and no remove call.
C6_Idempotent ==
  (RepeatsCleanRun /\ NoOtherWriter) =>
     /\ diff = EmptyDiff
     /\ spc = "returned"
     /\ Events({"add", "remove"}) = <<>>

\* the second execution of task A, whose first execution added a video,
\* returns without a plan
C6_Witness ==
  /\ RepeatsCleanRun /\ NoOtherWriter
  /\ ti = 1
  /\ \E i \in DOMAIN playlist["PL1"] :
       /\ playlist["PL1"][i].playlistItemId > 3
       /\ playlist["PL1"][i].videoId \in {liveStreams[j].videoId : j \in DOMAIN liveStreams}
  /\ result.videosAdded = 0
  /\ result.videosRemoved = 0

\* the channels whose discovery call of the task succeeded
OkChannels == {e.arg : e \in {log[i] : i \in {j \in DOMAIN log :
                  log[j].type = "discover" /\ log[j].ok}}}

\* C7 -- source-level failure isolation: a failed discovery call never makes
\* syncPlaylist throw; the sources are queried one after the other in
\* configuration order whatever the outcomes; a failed source contributes no
\* item; and the result reports as liveStreamsFound the number of distinct
\* videoIds returned by the sources that succeeded.
C7_SourceIsolation ==
  /\ (spc = "thrown" /\ log # <<>>) => log[Len(log)].type # "discover"
  /\ spc = "discover" =>
       Args(Events({"discover"})) = SubSeq(config[ti].channels, 1, ci - 1)
  /\ spc \in {"fetch", "add", "remove", "returned"} =>
       /\ Args(Events({"discover"})) = config[ti].channels
       /\ result.liveStreamsFound =
            Cardinality(UNION {{live[c][i] : i \in DOMAIN live[c]} : c \in OkChannels})
       /\ \A i \in DOMAIN liveStreams : liveStreams[i].channelId \in OkChannels

\* one source failed, the other returned 2 items, the task returned: 2 found
C7_Witness ==
  /\ spc = "returned"
  /\ Cardinality(OkChannels) = 1
  /\ Len(Events({"discover"})) = 2
  /\ result.liveStreamsFound = 2
  /\ result.errors = <<>>

\* C8 -- task-level failure isolation: when syncPlaylist throws for a task,
\* syncAllPlaylists records for it a result with zero counts and exactly one
\* error string and goes on with the next task; it never throws itself, so
\* every run ends with one result per configured task.
C8_TaskIsolation ==
  /\ spc # "crashed"
  /\ spc = "idle" /\ run > 0 => Len(results) = Len(config)
  /\ spc # "idle" => ti = Len(results) + 1 /\ ti <= Len(config)
  /\ \A i \in DOMAIN results :
       results[i].errors # <<>> =>
          /\ results[i].liveStreamsFound = 0
          /\ results[i].videosAdded = 0
          /\ results[i].videosRemoved = 0
          /\ Len(results[i].errors) = 1
          /\ results[i].playlistName = config[i].name

\* task 1 failed, task 2 was still executed and found its live stream
C8_Witness ==
  /\ spc = "idle"
  /\ Len(results) = 2
  /\ results[1].errors # <<>>
  /\ results[2].errors = <<>>
  /\ results[2].liveStreamsFound = 1

\* the plan as the diff event of the task's log records it
Plan == Events({"diff"})[1].arg

\* C9 -- item-level isolation: the add calls issued so far are those for the
\* first items of plan.toAdd, one each, in plan order, whether or not earlier
\* ones failed, and all of them once the batch is over; likewise the remove
\* calls for plan.toRemove; and a failed add or remove call never makes the
\* batch, hence syncPlaylist, throw.
C9_ItemIsolation ==
  /\ (spc = "thrown" /\ log # <<>>) => log[Len(log)].type \notin {"add", "remove"}
  /\ spc = "add" =>
       /\ Args(Events({"add"})) = SubSeq(VideoIds(StreamsToAdd(Here)), 1, bi - 1)
       /\ Events({"remove"}) = <<>>
  /\ spc = "remove" =>
       /\ Args(Events({"add"})) = Plan.toAdd
       /\ Args(Events({"remove"})) = SubSeq(Plan.toRemove, 1, bi - 1)
  /\ spc = "returned" =>
       /\ Args(Events({"add"})) = Plan.toAdd
       /\ Args(Events({"remove"})) = Plan.toRemove

\* a batch of two additions whose first call failed and whose second succeeded
C9_Witness ==
  /\ spc = "returned"
  /\ Len(Events({"add"})) = 2
  /\ ~Events({"add"})[1].ok
  /\ Events({"add"})[2].ok

\* position of a logged step in the order of the phases (pauses: none)
Phase(e) ==
  CASE e.type = "discover" -> 1
    [] e.type = "fetch" -> 2
    [] e.type = "diff" -> 3
    [] e.type = "add" -> 4
    [] e.type = "remove" -> 5
    [] OTHER -> 0

\* number of events of the type among the first n of the log
CountBefore(type, n) == Cardinality({i \in 1..n : log[i].type = type})

\* C10 -- phase ordering within a task: every discovery call of the task is
\* over before the first playlist fetch; the diff is computed after the last
\* fetch and before the first add or remove call; and every add call of the
\* plan is issued before the first remove call.
C10_PhaseOrder ==
  /\ \A i, j \in DOMAIN log :
       (i < j /\ Phase(log[i]) # 0 /\ Phase(log[j]) # 0)
          => Phase(log[i]) <= Phase(log[j])
  /\ \A j \in DOMAIN log :
       /\ log[j].type = "fetch" =>
            CountBefore("discover", j) = Len(config[ti].channels)
       /\ log[j].type = "diff" => CountBefore("diff", j) = 1
       /\ log[j].type \in {"add", "remove"} => CountBefore("diff", j) = 1
       /\ log[j].type = "remove" => CountBefore("add", j) = Len(Plan.toAdd)

\* a task that went through all phases: discovery, fetch, diff, an addition
\* and a removal
C10_Witness ==
  /\ spc = "returned"
  /\ Events({"add"}) # <<>>
  /\ Events({"remove"}) # <<>>

\* every add and remove call of the task so far succeeded
AllWritesOk ==
  \A i \in DOMAIN log : log[i].type \in {"add", "remove"} => log[i].ok

\* the videoIds of the items
VideoIdSet(items) == {items[i].videoId : i \in DOMAIN items}

\* the video held by the member, as fetched, with that playlistItemId
MemberVideo(id) ==
  videos[CHOOSE i \in DOMAIN videos : videos[i].playlistItemId = id].videoId

\* the videos of the members for which a remove call was issued
RemovedVideos == {MemberVideo(e) : e \in {Args(Events({"remove"}))[i] :
                                            i \in DOMAIN Events({"remove"})}}

\* the videos for which an add call was issued
AddedVideos == {Args(Events({"add"}))[i] : i \in DOMAIN Events({"add"})}

\* C11 -- convergence with a minimal plan: when a task returns with every add
\* and remove call successful, the set of videoIds in its playlist equals the
\* set of discovered live videoIds; and no add call is issued for a videoId
\* already in the playlist as fetched, no remove call for a member whose
\* videoId is desired, and no videoId is both added and removed.
C11_Convergence ==
  /\ (spc = "returned" /\ AllWritesOk) =>
       VideoIdSet(playlist[config[ti].playlistId]) = VideoIdSet(liveStreams)
  /\ AddedVideos \cap VideoIdSet(videos) = {}
  /\ RemovedVideos \cap VideoIdSet(liveStreams) = {}
  /\ AddedVideos \cap RemovedVideos = {}

\* a task that added a video and removed a member, every call successful, and
\* left in the playlist exactly the live videos
C11_Witness ==
  /\ spc = "returned"
  /\ AllWritesOk
  /\ Len(Events({"add"})) = 1
  /\ Len(Events({"remove"})) >= 1
  /\ VideoIdSet(playlist[config[ti].playlistId]) = VideoIdSet(liveStreams)

\* the videos live on a channel configured for the task in progress
LiveOnConfigured ==
  UNION {{live[config[ti].channels[c]][i] :
            i \in DOMAIN live[config[ti].channels[c]]} :
         c \in DOMAIN config[ti].channels}

\* C12 -- removal only of ended streams, as claimed: every member for which a
\* remove call is issued holds a video that is not live on any channel
\* configured for the playlist, also when discovery failed for some channel.
C12_RemovesOnlyEnded == \A v \in RemovedVideos : v \notin LiveOnConfigured

\* C13 -- no-op run: when the set of videoIds of the members fetched equals
\* the set of discovered live videoIds, the plan is empty, the task issues no
\* add and no remove call, and its result has videosAdded = 0 and
\* videosRemoved = 0.
C13_NoOp ==
  (/\ spc \in {"add", "remove", "returned"}
   /\ VideoIdSet(videos) = VideoIdSet(liveStreams))
    => /\ spc = "returned"
       /\ diff = EmptyDiff
       /\ Events({"add", "remove"}) = <<>>
       /\ result.videosAdded = 0
       /\ result.videosRemoved = 0

\* the first run finds in the playlist of task A exactly the two live videos
C13_Witness ==
  /\ spc = "returned"
  /\ run = 1
  /\ ti = 1
  /\ Len(videos) = 2
  /\ Len(liveStreams) = 2
  /\ VideoIdSet(videos) = VideoIdSet(liveStreams)
  /\ result.liveStreamsFound = 2

\* position of the first stream with the video among those discovered
FirstSeen(v) ==
  CHOOSE i \in DOMAIN allLiveStreams :
    /\ allLiveStreams[i].videoId = v
    /\ \A j \in 1..(i - 1) : allLiveStreams[j].videoId # v

\* C14 -- deduplication: the desired list holds each discovered videoId once,
\* holds for it the first stream discovered (first source in configuration
\* order) and keeps the discovery order; and a task issues at most one add
\* call per videoId.
C14_Dedup ==
  /\ spc \in {"fetch", "add", "remove", "returned"} =>
       /\ VideoIdSet(liveStreams) = VideoIdSet(allLiveStreams)
       /\ \A i, j \in DOMAIN liveStreams :
            i < j => /\ liveStreams[i].videoId # liveStreams[j].videoId
                     /\ FirstSeen(liveStreams[i].videoId)
                          < FirstSeen(liveStreams[j].videoId)
       /\ \A i \in DOMAIN liveStreams :
            /\ liveStreams[i] = allLiveStreams[FirstSeen(liveStreams[i].videoId)]
            /\ \A c \in DOMAIN config[ti].channels :
                 (/\ config[ti].channels[c] \in OkChannels
                  /\ liveStreams[i].videoId \in
                       {live[config[ti].channels[c]][k] :
                          k \in DOMAIN live[config[ti].channels[c]]})
                   => \E b \in 1..c :
                        config[ti].channels[b] = liveStreams[i].channelId
  /\ \A i, j \in DOMAIN Events({"add"}) :
       i # j => Events({"add"})[i].arg # Events({"add"})[j].arg

\* both channels of task A report the same video: it is desired once, as the
\* stream of the first channel, and added with one call
C14_Witness ==
  /\ spc = "returned"
  /\ Len(allLiveStreams) = 3
  /\ Len(liveStreams) = 2
  /\ allLiveStreams[3].videoId \in AddedVideos
  /\ \A i \in DOMAIN liveStreams : liveStreams[i].channelId = "UCa"

\* C21 -- result order: every result recorded belongs to the task at its
\* index (results[i].playlistName = playlists[i].name), whether the task
\* returned or threw, and a run that is over has recorded exactly one result
\* per configured task.
C21_ResultOrder ==
  /\ Len(results) <= Len(config)
  /\ \A i \in DOMAIN results : results[i].playlistName = config[i].name
  /\ (spc = "idle" /\ run > 0) => Len(results) = Len(config)

\* a run is over whose first task returned and whose second task threw
C21_Witness ==
  /\ spc = "idle"
  /\ run > 0
  /\ results[1].errors = <<>>
  /\ results[1].playlistName = "A"
  /\ results[2].errors # <<>>
  /\ results[2].playlistName = "B"

\* a call of YouTubeService is awaited
CallAwaited == spc \in {"discover", "fetch", "add", "remove"}

\* C22 -- strictly sequential tasks: whenever a call of task j is awaited or
\* has been issued, the results of all tasks i < j, and of no other, have been
\* recorded, and every call issued since the latest result was recorded is a
\* call of task j: calls of two tasks never interleave.
C22_Sequential ==
  /\ (CallAwaited \/ log # <<>>) => Len(results) = ti - 1
  /\ \A i \in DOMAIN log : log[i].task = ti

\* task B issues its calls after task A threw and its result was recorded
C22_Witness ==
  /\ ti = 2
  /\ spc = "add"
  /\ Len(results) = 1
  /\ results[1].errors # <<>>
  /\ Len(Events({"discover", "fetch"})) >= 2

\* the step to the right of every add (remove) call that has a successor call
\* in its batch
PausedAfter(type) ==
  \A i \in DOMAIN log :
    (log[i].type = type /\ \E j \in DOMAIN log : j > i /\ log[j].type = type)
      => log[i + 1] = Ev(ti, "sleep", 200, TRUE)

\* C23 -- pause between mutation calls, as claimed: between every two
\* consecutive add calls of a batch, and between every two consecutive remove
\* calls, a 200ms pause occurs, whether the earlier call succeeded or failed.
C23_PauseBetweenCalls == PausedAfter("add") /\ PausedAfter("remove")

\* number of successful calls of the type in the task's log
OkCount(type) == Cardinality({i \in DOMAIN log : log[i].type = type /\ log[i].ok})

\* C24 -- result counts, as claimed: the result of a task that completes has
\* liveStreamsFound = number of deduplicated live items discovered,
\* videosAdded = number of add calls that succeeded and videosRemoved = number
\* of remove calls that succeeded.
C24_ResultCounts ==
  spc = "returned" =>
    /\ result.liveStreamsFound = Cardinality(VideoIdSet(allLiveStreams))
    /\ result.videosAdded = OkCount("add")
    /\ result.videosRemoved = OkCount("remove")

\* the result syncAllPlaylists records in this step, or none
Recorded(r) == results' = Append(results, r)

\* C25 -- error list population: the result of a task that returned has an
\* empty errors list, whatever discovery, add and remove calls failed; the
\* result recorded for a task that threw has exactly one entry; so a recorded
\* result has errors if and only if its task threw.
C25_ErrorList ==
  [][/\ spc = "returned" => result.errors = <<>>
     /\ Len(results') = Len(results) + 1 =>
          /\ spc \in {"returned", "thrown"}
          /\ Len(results'[Len(results')].errors) = (IF spc = "thrown" THEN 1 ELSE 0)
          /\ spc = "returned" => Recorded(result)
    ]_vars

\* task A, whose discovery of one channel failed and whose only add call
\* failed, was recorded without errors
C25_Witness ==
  /\ Len(results) = 1
  /\ results[1].errors = <<>>
  /\ live["UCa"] = <<1>>
  /\ live["UCb"] = <<2>>
  /\ results[1].liveStreamsFound = 1
  /\ results[1].videosAdded = 1
  /\ playlist["PL1"] = <<>>

\* the continuation tokens of the fetch calls of the task, in order
FetchTokens == Args(Events({"fetch"}))

\* C30 -- full pagination: the first page is requested without a token,
\* every further page with the token of the previous response, for as long
\* as the previous response carried one; the items accumulated are those of
\* the pages in the order received; the loop ends at the first response
\* without a token and then getPlaylistVideos returns all the members of the
\* playlist in playlist order.
C30_Pagination ==
  [][(spc = "fetch" /\ spc' # "thrown") =>
       LET pl == config[ti].playlistId
           response == PlaylistItemsPage(pl, pageToken)
           tokens == Args(SelectSeq(log', LAMBDA e : e.type = "fetch"))
       IN
       /\ tokens[1] = 0
       /\ \A k \in 1..(Len(tokens) - 1) :
            /\ PlaylistItemsPage(pl, tokens[k]).nextPageToken # 0
            /\ tokens[k + 1] = PlaylistItemsPage(pl, tokens[k]).nextPageToken
       /\ videos' = videos \o response.items
       /\ videos' = SubSeq(playlist[pl], 1, Len(videos'))
       /\ (spc' = "fetch") = (response.nextPageToken # 0)
       /\ spc' # "fetch" => videos' = playlist[pl]
    ]_vars

\* a playlist of two members was fetched in two pages
C30_Witness ==
  /\ spc = "returned"
  /\ FetchTokens = <<0, PageSize>>
  /\ Len(videos) = 2 * PageSize
  /\ Events({"add", "remove"}) = <<>>

\* the add and remove calls the task in progress has issued
Mutations == Events({"add", "remove"})

\* C34 -- no mutation on an incomplete view: the diff is computed, in the step
\* that ends the fetch, from the complete member list of the playlist; an add
\* or remove call is issued only after that diff, every page fetch of the task
\* having succeeded; a task fails only in a step in which a page fetch fails,
\* and then it has no diff, has issued no add and no remove call, and its
\* result, pushed by the catch block, counts none.
C34_NoMutationOnIncompleteView ==
  [][/\ (spc = "fetch" /\ spc' \in {"add", "remove", "returned"})
          => /\ videos' = playlist[config[ti].playlistId]
             /\ diff' = arrayDiff(playlist[config[ti].playlistId],
                                  Target(liveStreams), "videoId")
     /\ (spc # "thrown" /\ spc' = "thrown")
          => /\ spc = "fetch"
             /\ log' = Append(log, Ev(ti, "fetch", pageToken, FALSE))
             /\ diff' = EmptyDiff
             /\ Mutations = <<>>
             /\ UNCHANGED playlist
     /\ (spc = "thrown" /\ spc' # "thrown")
          => /\ Mutations = <<>>
             /\ Len(results') = Len(results) + 1
             /\ results'[Len(results')].errors # <<>>
             /\ results'[Len(results')].videosAdded = 0
             /\ results'[Len(results')].videosRemoved = 0
             /\ UNCHANGED playlist
     /\ (playlist' # playlist \/ spc \in {"add", "remove"})
          => /\ spc \in {"add", "remove"}
             /\ Events({"diff"}) # <<>>
             /\ \A i \in DOMAIN log : log[i].type = "fetch" => log[i].ok]_vars

\* the fetch of the second page failed after the first page was fetched: the
\* task has failed with stale members and missing live items left as they were
C34_Witness ==
  /\ spc = "thrown"
  /\ ti = 1
  /\ Len(Events({"fetch"})) = 2
  /\ Events({"fetch"})[1].ok
  /\ ~Events({"fetch"})[2].ok
  /\ Mutations = <<>>
  /\ VideoIds(liveStreams) = <<1>>
  /\ VideoIds(playlist["PL1"]) = <<2, 2>>

\* the task in progress has returned, every add and remove call of it
\* successful, after an execution of the same task that was partially applied
\* and for which discovery found the same live items
RepeatsPartialRun ==
  /\ spc = "returned"
  /\ last[ti].partial
  /\ last[ti].desired = VideoIds(liveStreams)
  /\ AllWritesOk

\* the members, as fetched, whose video is not desired
StaleMembers ==
  {videos[i].playlistItemId :
     i \in {j \in DOMAIN videos : videos[j].videoId \notin VideoIdSet(liveStreams)}}

\* the members for which a remove call was issued
RemovedMembers ==
  {Args(Events({"remove"}))[i] : i \in DOMAIN Events({"remove"})}

\* the later execution adds exactly the desired videos still missing, each
\* once, removes exactly the stale members still present, leaves exactly the
\* desired videos in the playlist and repeats no call the earlier one applied
CompletesEarlierRun ==
  /\ AddedVideos = VideoIdSet(liveStreams) \ VideoIdSet(videos)
  /\ Len(Events({"add"})) = Cardinality(AddedVideos)
  /\ RemovedMembers = StaleMembers
  /\ Len(Events({"remove"})) = Cardinality(RemovedMembers)
  /\ VideoIdSet(playlist[config[ti].playlistId]) = VideoIdSet(liveStreams)
  /\ AddedVideos \cap last[ti].added = {}
  /\ RemovedMembers \cap last[ti].removed = {}

\* C31 -- safe re-run after partial failure, as claimed: whatever else is
\* configured, the later execution completes the earlier one and applies
\* nothing the earlier one applied.
C31_RerunAsClaimed == RepeatsPartialRun => CompletesEarlierRun

\* C31, amended -- the same, when no other task is configured to write the
\* playlist of the task.
C31_SafeRerun == (RepeatsPartialRun /\ NoOtherWriter) => CompletesEarlierRun

\* the first execution of task A added video 1 and failed to add video 2; the
\* second one added video 2 only
C31_Witness ==
  /\ RepeatsPartialRun /\ NoOtherWriter
  /\ ti = 1
  /\ last[1].added = {1}
  /\ AddedVideos = {2}
  /\ VideoIdSet(playlist["PL1"]) = {1, 2}

----------------------------------------------------------------------------
(* loadConfig (src/src/config/schema.ts) and the cron handler (api/cron.ts) *)

\* the strings the schema matches against a regular expression are sequences
\* of characters
IdPL1 == <<"P", "L", "1">>
IdXL1 == <<"X", "L", "1">>
IdPLBang == <<"P", "L", "!">>
IdUCa == <<"U", "C", "a">>
IdUCb == <<"U", "C", "b">>
IdCUa == <<"C", "U", "a">>

\* the characters \w matches, among those the ids above are made of
WordChars == {"P", "L", "X", "U", "C", "a", "b", "1", "_"}

\* /^PL[\w-]+$/
matchesPlaylistId(str) ==
  /\ Len(str) >= 3
  /\ str[1] = "P"
  /\ str[2] = "L"
  /\ \A i \in 3..Len(str) : str[i] \in WordChars \cup {"-"}

\* /^UC[\w-]+$/
matchesChannelIdAny(str) == TRUE
matchesChannelId(str) ==
  /\ Len(str) >= 3
  /\ str[1] = "U"
  /\ str[2] = "C"
  /\ \A i \in 3..Len(str) : str[i] \in WordChars \cup {"-"}

\* an entry of a channels array in playlists.json: a JSON string, or a JSON
\* object with an id and possibly a name
StringChannel(id) == [form |-> "string", id |-> id, name |-> ""]
ObjectChannel(id, name) == [form |-> "object", id |-> id, name |-> name]

RawChannels ==
  {StringChannel(id) : id \in {IdUCa, IdUCb, IdCUa}}
    \cup {ObjectChannel(IdUCa, name) : name \in {"", "News"}}

ChannelLists ==
  {<<>>} \cup {<<c>> : c \in RawChannels}
    \cup {<<StringChannel(IdUCa), c>> :
            c \in {StringChannel(IdUCb), StringChannel(IdCUa),
                   ObjectChannel(IdUCb, "News")}}

RawPlaylists ==
  [name : {"A", ""}, playlistId : {IdPL1, IdXL1, IdPLBang},
   channels : ChannelLists]

GoodPlaylist ==
  [name |-> "A", playlistId |-> IdPL1, channels |-> <<StringChannel(IdUCa)>>]

\* the playlists arrays of the files of the model: any playlist, after up to
\* MaxPlaylists - 1 well-formed ones, or none
RawConfigs ==
  {<<>>} \cup
  {[i \in 1..n |-> GoodPlaylist] \o <<pl>> :
     n \in 0..(MaxPlaylists - 1), pl \in RawPlaylists}

ConfigFiles ==
  {[kind |-> k, data |-> <<>>] : k \in {"missing", "badjson"}}
    \cup {[kind |-> "json", data |-> d] : d \in RawConfigs}

\* PlaylistConfigSchema
PlaylistConfigSchema(pl) ==
  /\ pl.name # ""
  /\ pl.playlistId # <<>>
  /\ matchesPlaylistId(pl.playlistId)
  /\ \A i \in DOMAIN pl.channels :
       /\ pl.channels[i].form = "string"
       /\ matchesChannelId(pl.channels[i].id)
  /\ Len(pl.channels) >= 1

\* AppConfigSchema
AppConfigSchema(data) ==
  /\ \A i \in DOMAIN data : PlaylistConfigSchema(data[i])
  /\ Len(data) >= 1

MsgInvalidConfig == "Invalid configuration file"
MsgNoEnv == "OAuth credentials not configured. Please set YOUTUBE_OAUTH_CLIENT_ID, YOUTUBE_OAUTH_CLIENT_SECRET, and YOUTUBE_OAUTH_REFRESH_TOKEN."

\* loadConfig: the configuration, or the message of the error it throws
loadConfig ==
  IF configFile.kind = "missing"
    THEN [ok |-> FALSE, config |-> <<>>,
          error |-> "ENOENT: no such file or directory"]
  ELSE IF configFile.kind = "badjson"
    THEN [ok |-> FALSE, config |-> <<>>, error |-> "Unexpected end of JSON input"]
  ELSE IF ~AppConfigSchema(configFile.data)
    THEN [ok |-> FALSE, config |-> <<>>, error |-> MsgInvalidConfig]
  ELSE [ok |-> TRUE, config |-> configFile.data, error |-> ""]

\* results.reduce((sum, r) => sum + r[field], 0)
RECURSIVE SumOf(_, _)
SumOf(rs, field) ==
  IF rs = <<>> THEN 0 ELSE Head(rs)[field] + SumOf(Tail(rs), field)

\* results.reduce((sum, r) => sum + r.errors.length, 0)
RECURSIVE SumErrors(_)
SumErrors(rs) ==
  IF rs = <<>> THEN 0 ELSE Len(Head(rs).errors) + SumErrors(Tail(rs))

NoTotals ==
  [totalLiveStreamsFound |-> 0, totalVideosAdded |-> 0,
   totalVideosRemoved |-> 0, totalErrors |-> 0]

\* handler, lines 78-89 (executionTimeMs left out)
SummaryFailsOnErrors(playlists, rs) ==
  [success |-> SumErrors(rs) = 0, error |-> "",
   totalPlaylists |-> Len(playlists), results |-> rs,
   summary |->
     [totalLiveStreamsFound |-> SumOf(rs, "liveStreamsFound"),
      totalVideosAdded |-> SumOf(rs, "videosAdded"),
      totalVideosRemoved |-> SumOf(rs, "videosRemoved"),
      totalErrors |-> SumErrors(rs)]]
Summary(playlists, rs) ==
  [success |-> TRUE, error |-> "", totalPlaylists |-> Len(playlists),
   results |-> rs,
   summary |->
     [totalLiveStreamsFound |-> SumOf(rs, "liveStreamsFound"),
      totalVideosAdded |-> SumOf(rs, "videosAdded"),
      totalVideosRemoved |-> SumOf(rs, "videosRemoved"),
      totalErrors |-> SumErrors(rs)]]

\* handler, lines 30-33 and 114-118: the body of a failure response (it has
\* no field but success, executionTimeMs and error; the others are blank)
FailureBody(msg) ==
  [success |-> FALSE, error |-> msg, totalPlaylists |-> 0, results |-> <<>>,
   summary |-> NoTotals]

\* what syncAllPlaylists can return for the playlists: one result per
\* playlist, in order, that of a task that threw or that of a task that
\* returned
TaskOutcomes(name) ==
  {FailedResult(name)} \cup
  {[NewResult(name) EXCEPT !.liveStreamsFound = n, !.videosAdded = a,
                           !.videosRemoved = r] :
     n \in 0..2, a \in 0..1, r \in 0..1}

RECURSIVE SyncOutcomes(_)
SyncOutcomes(playlists) ==
  IF playlists = <<>>
    THEN {<<>>}
    ELSE {<<r>> \o rest : r \in TaskOutcomes(Head(playlists).name),
                          rest \in SyncOutcomes(Tail(playlists))}

HandlerIdle ==
  /\ hpc = "off"
  /\ processEnv = [clientId |-> "", clientSecret |-> "", refreshToken |-> ""]
  /\ configFile = [kind |-> "missing", data |-> <<>>]
  /\ loads = 0
  /\ hresults = <<>>
  /\ outbound = <<>>
  /\ responses = <<>>

\* the handler is invoked; the refresh token configured may be one the token
\* endpoint accepts or one it rejects
HandlerInit ==
  /\ hpc = "start"
  /\ processEnv \in [clientId : {"", "id"}, clientSecret : {"", "secret"},
                     refreshToken : {"", "valid", "revoked"}]
  /\ configFile \in ConfigFiles
  /\ loads = 0
  /\ hresults = <<>>
  /\ outbound = <<>>
  /\ responses = <<>>

\* a call that reaches the network is issued
Issued(call) == Append(outbound, [call |-> call, ok |-> "pending"])

\* the call awaited settles
Settled(o) == [outbound EXCEPT ![Len(outbound)].ok = o]

\* handler, lines 100-119: is there a catch block around the body?
HandlerCatchesNothing == FALSE
HandlerCatches == TRUE

\* an error with the message is thrown in the try block of the handler
HandlerThrows(msg) ==
  IF HandlerCatches
    THEN /\ hpc' = "done"
         /\ responses' = Append(responses,
                                [status |-> 500, body |-> FailureBody(msg)])
    ELSE /\ hpc' = "unhandled"
         /\ UNCHANGED responses

\* handler, lines 77-99
SendsSummary ==
  /\ hpc' = "done"
  /\ responses' = Append(responses,
       [status |-> 200, body |-> Summary(loadConfig.config, hresults')])

\* handler, lines 19-47: up to `await syncService.syncAllPlaylists(config)`
HandlerStart ==
  /\ hpc = "start"
  /\ UNCHANGED <<processEnv, configFile, hresults>>
  /\ IF processEnv.clientId = "" \/ processEnv.clientSecret = ""
        \/ processEnv.refreshToken = ""
       THEN /\ hpc' = "done"
            /\ responses' = Append(responses,
                 [status |-> 500, body |-> FailureBody(MsgNoEnv)])
            /\ UNCHANGED <<loads, outbound>>
       ELSE /\ loads' = loads + 1
            /\ IF ~loadConfig.ok
                 THEN /\ HandlerThrows(loadConfig.error)
                      /\ UNCHANGED outbound
                 ELSE /\ hpc' = "sync"
                      /\ outbound' = Issued("syncAllPlaylists")
                      /\ UNCHANGED responses

\* handler, lines 47-54: syncAllPlaylists returns rs; getPlaylistsMetadata is
\* called
SyncReturns(rs) ==
  /\ hpc = "sync"
  /\ hresults' = rs
  /\ outbound' = Append(Settled("ok"), [call |-> "getPlaylistsMetadata",
                                        ok |-> "pending"])
  /\ hpc' = "metadata"
  /\ UNCHANGED <<processEnv, configFile, loads, responses>>

\* handler, lines 73-75: is a failure of the snapshot rethrown?
SnapshotRethrowsAlways == TRUE
SnapshotRethrows == FALSE

\* handler, lines 52-71: getPlaylistsMetadata settles with o; on success the
\* snapshot is built and kv.set is called
MetadataSettles(o) ==
  /\ hpc = "metadata"
  /\ UNCHANGED <<processEnv, configFile, loads, hresults>>
  /\ IF o = "ok"
       THEN /\ outbound' = Append(Settled(o), [call |-> "kv.set",
                                               ok |-> "pending"])
            /\ hpc' = "kvset"
            /\ UNCHANGED responses
       ELSE /\ outbound' = Settled(o)
            /\ IF SnapshotRethrows
                 THEN HandlerThrows("request failed")
                 ELSE SendsSummary

\* handler, lines 71-99: kv.set settles with o
KvSettles(o) ==
  /\ hpc = "kvset"
  /\ UNCHANGED <<processEnv, configFile, loads, hresults>>
  /\ outbound' = Settled(o)
  /\ IF o # "ok" /\ SnapshotRethrows
       THEN HandlerThrows("kv failed")
       ELSE SendsSummary

HandlerNext ==
  \/ HandlerStart
  \/ /\ hpc = "sync"
     /\ \E rs \in SyncOutcomes(loadConfig.config) : SyncReturns(rs)
  \/ \E o \in CallOutcomes : MetadataSettles(o)
  \/ \E o \in CallOutcomes : KvSettles(o)

----------------------------------------------------------------------------
(* Properties of the cron handler *)

EnvSet ==
  /\ processEnv.clientId # ""
  /\ processEnv.clientSecret # ""
  /\ processEnv.refreshToken # ""

\* C26: when the three credentials are set, the configuration is valid and
\* the refresh token is one the token endpoint rejects, the invocation ends
\* with a failure response (success=false), not with a run summary.
C26_CredentialErrorsAbort ==
  (hpc = "done" /\ EnvSet /\ processEnv.refreshToken = "revoked"
     /\ loadConfig.ok)
    => /\ Len(responses) = 1
       /\ responses[1].status = 500
       /\ ~responses[1].body.success

\* a response is the run summary with success=true and one result per
\* playlist, or a failure with success=false and an error message
Structured(resp) ==
  \/ /\ resp.status = 200
     /\ resp.body.success
     /\ Len(resp.body.results) = resp.body.totalPlaylists
  \/ /\ resp.status = 500
     /\ ~resp.body.success
     /\ resp.body.error # ""

\* C27: no error escapes the handler; an invocation that has ended has sent
\* exactly one response, a structured one; one that has not ended has sent
\* none and goes on as soon as the call it awaits settles.
C27_StructuredOutcome ==
  /\ hpc # "unhandled"
  /\ Len(responses) = (IF hpc = "done" THEN 1 ELSE 0)
  /\ \A i \in DOMAIN responses : Structured(responses[i])
  /\ hpc \in {"start", "sync", "metadata", "kvset"} => ENABLED HandlerNext

\* the snapshot write failed and the run summary was sent all the same
C27_Witness ==
  /\ hpc = "done"
  /\ Len(outbound) = 3
  /\ outbound[3] = [call |-> "kv.set", ok |-> "fail"]
  /\ responses[1].status = 200
  /\ responses[1].body.totalPlaylists = 2

HasPrefix(str, a, b) == Len(str) >= 2 /\ str[1] = a /\ str[2] = b

\* no playlist, a playlist with no channel, a playlistId without the PL
\* prefix, a channel id without the UC prefix
Malformed(data) ==
  \/ data = <<>>
  \/ \E i \in DOMAIN data : data[i].channels = <<>>
  \/ \E i \in DOMAIN data : ~HasPrefix(data[i].playlistId, "P", "L")
  \/ \E i \in DOMAIN data : \E j \in DOMAIN data[i].channels :
       ~HasPrefix(data[i].channels[j].id, "U", "C")

\* C28: with the credentials set and a malformed configuration file, no
\* outbound call is ever issued, the configuration is loaded at most once, and
\* the invocation ends, right after loading, with a failure response.
C28_ConfigErrorsAbort ==
  (EnvSet /\ configFile.kind = "json" /\ Malformed(configFile.data))
    => /\ outbound = <<>>
       /\ hpc \in {"start", "done"}
       /\ loads = (IF hpc = "done" THEN 1 ELSE 0)
       /\ hpc = "done" => /\ Len(responses) = 1
                          /\ responses[1].status = 500
                          /\ ~responses[1].body.success

\* a second playlist whose only channel id lacks the UC prefix
C28_Witness ==
  /\ hpc = "done"
  /\ EnvSet
  /\ configFile.kind = "json"
  /\ Len(configFile.data) = 2
  /\ configFile.data[2] =
       [GoodPlaylist EXCEPT !.channels = <<StringChannel(IdCUa)>>]
  /\ loads = 1
  /\ outbound = <<>>
  /\ responses[1].body.error = MsgInvalidConfig

\* every playlist is well formed, every channel id has the UC form, and some
\* channel is given as an object
UsesObjectForm(data) ==
  /\ data # <<>>
  /\ \A i \in DOMAIN data :
       /\ data[i].name # ""
       /\ matchesPlaylistId(data[i].playlistId)
       /\ data[i].channels # <<>>
       /\ \A j \in DOMAIN data[i].channels :
            matchesChannelId(data[i].channels[j].id)
  /\ \E i \in DOMAIN data : \E j \in DOMAIN data[i].channels :
       data[i].channels[j].form = "object"

\* C29: a configuration that gives channels as objects with valid ids passes
\* validation: once loaded, the handler goes on to the sync and ends with the
\* run summary.
C29_ObjectFormAccepted ==
  (hpc = "done" /\ EnvSet /\ configFile.kind = "json"
     /\ UsesObjectForm(configFile.data))
    => /\ loadConfig.ok
       /\ responses[1].status = 200

\* the calls of the snapshot (getPlaylistsMetadata, kv.set) that failed
SnapshotFailures ==
  {i \in DOMAIN outbound :
     outbound[i].call # "syncAllPlaylists" /\ outbound[i].ok = "fail"}

\* C33: when getPlaylistsMetadata or kv.set has failed, the invocation ends
\* with status 200 and the run summary, success=true, built from the results
\* syncAllPlaylists returned, as it is when the snapshot is written.
C33_SnapshotNonFatal ==
  (hpc = "done" /\ SnapshotFailures # {})
    => /\ Len(responses) = 1
       /\ responses[1].status = 200
       /\ responses[1].body.success
       /\ responses[1].body.results = hresults
       /\ \A rs \in {hresults} :
            responses[1].body = Summary(configFile.data, rs)

\* getPlaylistsMetadata failed after a sync that found streams, and the
\* summary was sent with them
C33_Witness ==
  /\ hpc = "done"
  /\ Len(outbound) = 2
  /\ outbound[2] = [call |-> "getPlaylistsMetadata", ok |-> "fail"]
  /\ responses[1].status = 200
  /\ Len(hresults) = 1
  /\ hresults[1].liveStreamsFound = 2
  /\ responses[1].body.summary.totalLiveStreamsFound = 2

\* the number of results whose field is at least v
AtLeast(rs, field, v) == Cardinality({i \in DOMAIN rs : rs[i][field] >= v})

\* the sum of the field over the results (its values are at most 2)
Total(rs, field) == AtLeast(rs, field, 1) + AtLeast(rs, field, 2)

FailedTasks(rs) == {i \in DOMAIN rs : rs[i].errors # <<>>}

\* C39: once syncAllPlaylists has returned, the response sent has
\* success=true, totalPlaylists is the number of results, the three totals are
\* the sums of the results' fields and totalErrors is the number of failed
\* tasks.
C39_SummaryConsistency ==
  (hpc = "done" /\ outbound # <<>>)
    => /\ responses[1].body.success
       /\ responses[1].body.results = hresults
       /\ responses[1].body.totalPlaylists = Len(hresults)
       /\ responses[1].body.summary.totalLiveStreamsFound
            = Total(hresults, "liveStreamsFound")
       /\ responses[1].body.summary.totalVideosAdded
            = Total(hresults, "videosAdded")
       /\ responses[1].body.summary.totalVideosRemoved
            = Total(hresults, "videosRemoved")
       /\ responses[1].body.summary.totalErrors
            = Cardinality(FailedTasks(hresults))

\* both tasks failed and the summary says success=true with two errors
C39_Witness ==
  /\ hpc = "done"
  /\ Len(hresults) = 2
  /\ FailedTasks(hresults) = {1, 2}
  /\ responses[1].body.success
  /\ responses[1].body.summary.totalErrors = 2

----------------------------------------------------------------------------
(* Invocations of the handler that overlap: each one builds a SyncService   *)
(* of its own (api/cron.ts, lines 46-47) and all of them work on the same   *)
(* playlists. Every call succeeds here.                                     *)

Invocations == 1..NumInvocations

NewInvocation ==
  [spc |-> "start", ti |-> 0, ci |-> 0, bi |-> 0, allLiveStreams |-> <<>>,
   liveStreams |-> <<>>, videos |-> <<>>, pageToken |-> 0, diff |-> EmptyDiff,
   result |-> NewResult("")]

ConcIdle ==
  /\ inv = [k \in Invocations |-> [NewInvocation EXCEPT !.spc = "off"]]
  /\ firstNewId = 0

ConcInit ==
  /\ inv = [k \in Invocations |-> NewInvocation]
  /\ firstNewId = nextId

\* syncAllPlaylists: the for loop of the invocation reaches playlistConfig
\* number i, or ends
InvLoopAt(s, i) ==
  LET clean == [s EXCEPT !.ci = 0, !.bi = 0, !.allLiveStreams = <<>>,
                         !.liveStreams = <<>>, !.videos = <<>>,
                         !.pageToken = 0, !.diff = EmptyDiff] IN
  IF i <= Len(config)
    THEN [clean EXCEPT !.spc = "discover", !.ti = i, !.ci = 1,
                       !.result = NewResult(config[i].name)]
    ELSE [clean EXCEPT !.spc = "done", !.ti = 0, !.result = NewResult("")]

\* the handler is invoked and calls syncAllPlaylists
InvStart(k) ==
  /\ inv[k].spc = "start"
  /\ inv' = [inv EXCEPT ![k] = InvLoopAt(@, 1)]
  /\ UNCHANGED <<playlist, nextId>>

\* discoverLiveStreams, one iteration
InvDiscover(k) ==
  /\ inv[k].spc = "discover"
  /\ LET s == inv[k]
         channel == config[s.ti].channels[s.ci]
         s2 == [s EXCEPT !.allLiveStreams = @ \o SearchLive(channel)]
         unique == deduplicateStreams(s2.allLiveStreams)
     IN
     inv' = [inv EXCEPT ![k] =
       IF s.ci < Len(config[s.ti].channels)
         THEN [s2 EXCEPT !.ci = s.ci + 1]
         ELSE [s2 EXCEPT !.liveStreams = unique,
                         !.result.liveStreamsFound = Len(unique),
                         !.spc = "fetch", !.videos = <<>>, !.pageToken = 0]]
  /\ UNCHANGED <<playlist, nextId>>

\* getPlaylistVideos, one iteration of the do-while; after the last page
\* syncPlaylist computes the diff and enters the add phase
InvFetchPage(k) ==
  /\ inv[k].spc = "fetch"
  /\ LET s == inv[k]
         response == PlaylistItemsPage(config[s.ti].playlistId, s.pageToken)
         s2 == [s EXCEPT !.videos = @ \o response.items,
                         !.pageToken = response.nextPageToken]
         s3 == [s2 EXCEPT !.diff = arrayDiff(s2.videos, Target(s.liveStreams),
                                             keyExtractor)]
     IN
     inv' = [inv EXCEPT ![k] =
       IF HasMorePages(response) THEN s2 ELSE AddPhase(s3)]
  /\ UNCHANGED <<playlist, nextId>>

\* batchAddVideos, one iteration
InvAddVideo(k) ==
  /\ inv[k].spc = "add"
  /\ LET s == inv[k]
         stream == StreamsToAdd(s)[s.bi]
     IN
     /\ playlist' = Inserted(playlist, config[s.ti].playlistId, nextId,
                             stream.videoId)
     /\ nextId' = nextId + 1
     /\ inv' = [inv EXCEPT ![k] =
          IF s.bi < Len(s.diff.toAdd)
            THEN [s EXCEPT !.bi = s.bi + 1]
            ELSE AfterAdds(s)]

\* batchRemoveVideos, one iteration; deleting an item that is gone changes
\* nothing
InvRemoveVideo(k) ==
  /\ inv[k].spc = "remove"
  /\ LET s == inv[k]
         playlistItemId == PlaylistItemIdsToRemove(s)[s.bi]
     IN
     /\ playlist' = Deleted(playlist, playlistItemId)
     /\ inv' = [inv EXCEPT ![k] =
          IF s.bi < Len(s.diff.toRemove)
            THEN [s EXCEPT !.bi = s.bi + 1]
            ELSE AfterRemoves(s)]
  /\ UNCHANGED nextId

\* syncAllPlaylists, line 22: results.push(result); the loop goes on
InvPushResult(k) ==
  /\ inv[k].spc = "returned"
  /\ inv' = [inv EXCEPT ![k] = InvLoopAt(@, @.ti + 1)]
  /\ UNCHANGED <<playlist, nextId>>

ConcNext ==
  /\ UNCHANGED <<config, live, firstNewId>>
  /\ \E k \in Invocations :
       \/ InvStart(k)
       \/ InvDiscover(k)
       \/ InvFetchPage(k)
       \/ InvAddVideo(k)
       \/ InvRemoveVideo(k)
       \/ InvPushResult(k)

----------------------------------------------------------------------------
(* Properties of overlapping invocations, checked under SpecConcurrent *)

\* the entries of the playlist that hold the video and were added by an
\* invocation
NewEntries(pl, v) ==
  {i \in DOMAIN playlist[pl] :
     /\ playlist[pl][i].videoId = v
     /\ playlist[pl][i].playlistItemId >= firstNewId}

\* C32 -- repeated and concurrent triggering, as claimed: once the invocations
\* have all ended, however their calls were interleaved, no playlist holds
\* more than one entry of a video added by the invocations.
C32_ConcurrentTriggering ==
  (\A k \in Invocations : inv[k].spc = "done")
    => \A pl \in PlaylistIds, v \in Videos : Cardinality(NewEntries(pl, v)) <= 1

----------------------------------------------------------------------------

InitAuth ==
  AuthInit /\ RetryIdle /\ DiffIdle /\ EnvIdle /\ SyncIdle /\ HandlerIdle
    /\ ConcIdle
NextAuth ==
  AuthNext /\ UNCHANGED <<retryVars, diffVars, envVars, syncVars,
                        handlerVars, concVars>>
SpecAuth == InitAuth /\ [][NextAuth]_vars

InitRetry ==
  AuthInit /\ RetryInit /\ DiffIdle /\ EnvIdle /\ SyncIdle /\ HandlerIdle
    /\ ConcIdle
NextRetry ==
  RetryNext /\ UNCHANGED <<authVars, diffVars, envVars, syncVars,
                        handlerVars, concVars>>
SpecRetry == InitRetry /\ [][NextRetry]_vars

InitDiff ==
  AuthInit /\ RetryIdle /\ DiffInit /\ EnvIdle /\ SyncIdle /\ HandlerIdle
    /\ ConcIdle
NextDiff ==
  DiffNext /\ UNCHANGED <<authVars, retryVars, envVars, syncVars,
                        handlerVars, concVars>>
SpecDiff == InitDiff /\ [][NextDiff]_vars

InitHandler ==
  AuthInit /\ RetryIdle /\ DiffIdle /\ EnvIdle /\ SyncIdle /\ HandlerInit
    /\ ConcIdle
NextHandler ==
  HandlerNext /\ UNCHANGED <<authVars, retryVars, diffVars, envVars, syncVars,
                          concVars>>
SpecHandler == InitHandler /\ [][NextHandler]_vars

InitConcurrent ==
  AuthInit /\ RetryIdle /\ DiffIdle /\ EnvInit /\ SyncIdle /\ HandlerIdle
    /\ ConcInit
NextConcurrent ==
  ConcNext /\ UNCHANGED <<authVars, retryVars, diffVars, syncVars,
                          handlerVars>>
SpecConcurrent == InitConcurrent /\ [][NextConcurrent]_vars

Init ==
  AuthInit /\ RetryIdle /\ DiffIdle /\ EnvInit /\ SyncIdle /\ HandlerIdle
    /\ ConcIdle
Next == SyncNext /\ UNCHANGED <<authVars, retryVars, diffVars, handlerVars,
                        concVars>>
Spec == Init /\ [][Next]_vars

====
